---- MODULE Spec2Model ----
(***************************************************************************)
(* Model of scripts/wiki_parser.py: the MediaWiki markup parser.           *)
(*                                                                         *)
(* A Python string is a sequence of one-character strings, so that every   *)
(* regular expression of the source is modelled by what it matches,        *)
(* character by character.  A Python dict is a sequence of <<key, value>>  *)
(* pairs in insertion order.                                               *)
(***************************************************************************)
EXTENDS Integers, Sequences, FiniteSets, TLC

VARIABLES pc, input, result, again, locals, stdout

vars == <<pc, input, result, again, locals, stdout>>

(***************************************************************************)
(* Strings                                                                 *)
(***************************************************************************)

\* Python's None; no string equals it, "None" being no character.
None == <<"None">>

NL == "\n"

\* bool(x) for x a string or None
Truthy(x) == x # None /\ x # <<>>

\* The characters that \s matches and str.strip() removes.
IsSpace(c) == c \in {" ", "\t", "\n"}

Min(S) == CHOOSE x \in S : \A y \in S : x <= y

Max(S) == CHOOSE x \in S : \A y \in S : x >= y

\* s[i:] in Python terms, for a 1-based i.
From(s, i) == SubSeq(s, i, Len(s))

\* s.startswith(p, i-1): the pattern p stands at position i of s.
At(s, i, p) ==
    /\ i >= 1
    /\ i + Len(p) - 1 <= Len(s)
    /\ \A k \in 1..Len(p) : s[i + k - 1] = p[k]

\* The first position >= i where p stands, 0 when there is none.
Find(s, i, p) ==
    LET hits == {k \in i..(Len(s) - Len(p) + 1) : At(s, k, p)}
    IN  IF hits = {} THEN 0 ELSE Min(hits)

\* The first position >= i holding the character c, Len(s)+1 when none does.
FirstChar(s, i, c) ==
    LET hits == {k \in i..Len(s) : s[k] = c}
    IN  IF hits = {} THEN Len(s) + 1 ELSE Min(hits)

\* The first position >= i that holds no whitespace, Len(s)+1 when none does.
SkipSpace(s, i) ==
    LET hits == {k \in i..Len(s) : ~IsSpace(s[k])}
    IN  IF hits = {} THEN Len(s) + 1 ELSE Min(hits)

\* str.strip()
Strip(s) ==
    LET keep == {k \in 1..Len(s) : ~IsSpace(s[k])}
    IN  IF keep = {} THEN <<>> ELSE SubSeq(s, Min(keep), Max(keep))

\* str.split(sep) for a non-empty separator: always at least one piece.
RECURSIVE Split(_, _)
Split(s, sep) ==
    LET k == Find(s, 1, sep)
    IN  IF k = 0 THEN <<s>>
        ELSE <<SubSeq(s, 1, k - 1)>> \o Split(From(s, k + Len(sep)), sep)

\* sep.join(parts)
RECURSIVE Join(_, _)
Join(parts, sep) ==
    IF parts = <<>> THEN <<>>
    ELSE IF Len(parts) = 1 THEN parts[1]
    ELSE parts[1] \o sep \o Join(Tail(parts), sep)

\* The concatenation of a sequence of strings.
Concat(parts) == Join(parts, <<>>)

(***************************************************************************)
(* Insertion-ordered mapping (dict)                                        *)
(***************************************************************************)

Keys(d) == {d[k][1] : k \in DOMAIN d}

\* The position of key k in d, which holds it.
KeyPos(d, k) == CHOOSE p \in DOMAIN d : d[p][1] = k

\* d[k]
DictGet(d, k) == d[KeyPos(d, k)][2]

\* A dict that forgets the old position of a key written again.
DictSetMoveToEnd(d, k, v) ==
    Append(SelectSeq(d, LAMBDA e : e[1] # k), <<k, v>>)

\* d[k] = v: a new key is appended, a key already present keeps its place.
DictSet(d, k, v) ==
    IF k \in Keys(d)
    THEN [d EXCEPT ![KeyPos(d, k)] = <<k, v>>]
    ELSE Append(d, <<k, v>>)

(***************************************************************************)
(* Patterns                                                                *)
(***************************************************************************)

\* A pattern is modelled by an operator that gives, for a string s and a
\* position i, <<e, r>>: the match that starts at position i ends at
\* position e and is replaced by r, or NoMatch.  No pattern of the source
\* matches the empty string.
NoMatch == <<0, <<>>>>

(***************************************************************************)
(* The pattern of extract_text_from_tables                                 *)
(***************************************************************************)

\* re.sub(r'^[\|!]+', '', line)
StripMarkers(line) ==
    LET stop == {k \in 1..Len(line) : line[k] \notin {"|", "!"}}
    IN  IF stop = {} THEN <<>> ELSE From(line, Min(stop))

\* The test of line 32 without its style= part.
KeepLineNoStyle(line) ==
    /\ line # <<>>
    /\ ~At(line, 1, <<"c", "l", "a", "s", "s", "=">>)
    /\ ~At(line, 1, <<"c", "o", "l", "s", "p", "a", "n", "=">>)

\* The test of line 32: the stripped line is kept.
KeepLine(line) ==
    /\ line # <<>>
    /\ ~At(line, 1, <<"c", "l", "a", "s", "s", "=">>)
    /\ ~At(line, 1, <<"s", "t", "y", "l", "e", "=">>)
    /\ ~At(line, 1, <<"c", "o", "l", "s", "p", "a", "n", "=">>)

\* The lines a row contributes to `extracted`.
RowLines(row) ==
    LET lines == Split(row, <<NL>>)
        clean == [k \in DOMAIN lines |-> StripMarkers(Strip(lines[k]))]
    IN  SelectSeq(clean, KeepLine)

RECURSIVE Flatten(_)
Flatten(seqs) ==
    IF seqs = <<>> THEN <<>> ELSE Head(seqs) \o Flatten(Tail(seqs))

extract_table_text(table_content) ==
    LET rows == Split(table_content, <<"|", "-">>)
    IN  Join(Flatten([k \in DOMAIN rows |-> RowLines(rows[k])]), <<" ">>)

\* \{\|(.*)\|\}: the block runs to the last close marker, not the first.
TableAtGreedy(s, i) ==
    LET hits == {k \in (i + 2)..(Len(s) - 1) : At(s, k, <<"|", "}">>)}
    IN  IF At(s, i, <<"{", "|">>) /\ hits # {}
        THEN <<Max(hits) + 1, extract_table_text(SubSeq(s, i + 2, Max(hits) - 1))>>
        ELSE NoMatch

\* \{\|(.*?)\|\} with re.DOTALL, replaced by extract_table_text(group 1)
TableAt(s, i) ==
    LET j == IF At(s, i, <<"{", "|">>) THEN Find(s, i + 2, <<"|", "}">>) ELSE 0
    IN  IF j = 0 THEN NoMatch
        ELSE <<j + 1, extract_table_text(SubSeq(s, i + 2, j - 1))>>

(***************************************************************************)
(* The patterns of clean_wiki_markup                                       *)
(***************************************************************************)

\* prefix.*?\]\] where . matches no newline
PrefixLinkAt(s, i, prefix) ==
    LET p == i + Len(prefix)
        j == IF At(s, i, prefix) THEN Find(s, p, <<"]", "]">>) ELSE 0
    IN  IF j = 0 \/ \E x \in p..(j - 1) : s[x] = NL THEN NoMatch
        ELSE <<j + 1, <<>>>>

\* \[\[File:.*?\]\]
FileAt(s, i) == PrefixLinkAt(s, i, <<"[", "[", "F", "i", "l", "e", ":">>)

\* \[\[Image:.*?\]\]
ImageAt(s, i) == PrefixLinkAt(s, i, <<"[", "[", "I", "m", "a", "g", "e", ":">>)

\* A link pattern whose group 1 is the text after the last pipe.
LinkAtLastPipe(s, i) ==
    LET p == i + 2
        r == FirstChar(s, p, "]")
        bars == {x \in p..(r - 1) : s[x] = "|"}
    IN  IF ~At(s, i, <<"[", "[">>) \/ r = p \/ ~At(s, r, <<"]", "]">>)
        THEN NoMatch
        ELSE IF bars # {} /\ Max(bars) + 1 < r
        THEN <<r + 1, SubSeq(s, Max(bars) + 1, r - 1)>>
        ELSE <<r + 1, SubSeq(s, p, r - 1)>>

\* \[\[(?:[^|\]]*\|)?([^\]]+)\]\] replaced by group 1.  Group 1 runs up to
\* the first "]", which must begin "]]".  The optional part takes the text up
\* to the first pipe when group 1 is then not empty; if not, group 1 is the
\* whole inner text.
LinkAt(s, i) ==
    LET p == i + 2
        r == FirstChar(s, p, "]")
        q == FirstChar(s, p, "|")
    IN  IF ~At(s, i, <<"[", "[">>) \/ r = p \/ ~At(s, r, <<"]", "]">>)
        THEN NoMatch
        ELSE IF q + 1 < r
        THEN <<r + 1, SubSeq(s, q + 1, r - 1)>>
        ELSE <<r + 1, SubSeq(s, p, r - 1)>>

\* \[http[^\]]+\]
ExternalAt(s, i) ==
    LET p == i + 5
        r == FirstChar(s, p, "]")
    IN  IF At(s, i, <<"[", "h", "t", "t", "p">>) /\ r > p /\ r <= Len(s)
        THEN <<r, <<>>>> ELSE NoMatch

\* '''
BoldAt(s, i) ==
    IF At(s, i, <<"'", "'", "'">>) THEN <<i + 2, <<>>>> ELSE NoMatch

\* ''
ItalicAt(s, i) ==
    IF At(s, i, <<"'", "'">>) THEN <<i + 1, <<>>>> ELSE NoMatch

\* <br\s*/?> replaced by a space
BrAt(s, i) ==
    LET q == SkipSpace(s, i + 3)
        e == IF At(s, q, <<"/">>) THEN q + 1 ELSE q
    IN  IF At(s, i, <<"<", "b", "r">>) /\ At(s, e, <<">">>)
        THEN <<e, <<" ">>>> ELSE NoMatch

\* <[^>]+>
TagAt(s, i) ==
    LET r == FirstChar(s, i + 1, ">")
    IN  IF At(s, i, <<"<">>) /\ r > i + 1 /\ r <= Len(s)
        THEN <<r, <<>>>> ELSE NoMatch

\* \{\{Main\|([^\}]+)\}\} replaced by group 1
MainAt(s, i) ==
    LET p == i + 7
        r == FirstChar(s, p, "}")
    IN  IF At(s, i, <<"{", "{", "M", "a", "i", "n", "|">>) /\ r > p /\ At(s, r, <<"}", "}">>)
        THEN <<r + 1, SubSeq(s, p, r - 1)>> ELSE NoMatch

\* \{\{The ([^\}]+?) faction\}\} replaced by "The " and group 1: group 1 has
\* no "}", so " faction" ends right before the first "}" after "{{The ".
FactionAt(s, i) ==
    LET p == i + 6
        r == FirstChar(s, p, "}")
        k == r - 8
    IN  IF At(s, i, <<"{", "{", "T", "h", "e", " ">>) /\ k > p /\ At(s, k, <<" ", "f", "a", "c", "t", "i", "o", "n", "}", "}">>)
        THEN <<r + 1, <<"T", "h", "e", " ">> \o SubSeq(s, p, k - 1)>>
        ELSE NoMatch

\* \{\{[^\}|]+\}\}: a template with arguments is not matched.
TemplateAtNoPipe(s, i) ==
    LET p == i + 2
        r == FirstChar(s, p, "}")
    IN  IF /\ At(s, i, <<"{", "{">>) /\ r > p /\ At(s, r, <<"}", "}">>)
           /\ \A x \in p..(r - 1) : s[x] # "|"
        THEN <<r + 1, <<>>>> ELSE NoMatch

\* \{\{[^\}]+\}\}
TemplateAt(s, i) ==
    LET p == i + 2
        r == FirstChar(s, p, "}")
    IN  IF At(s, i, <<"{", "{">>) /\ r > p /\ At(s, r, <<"}", "}">>)
        THEN <<r + 1, <<>>>> ELSE NoMatch

\* A whitespace pattern that knows the blank only: runs of blanks become
\* one blank, tabs and newlines stay.
SpaceAtBlanks(s, i) ==
    IF s[i] = " "
    THEN <<Min({k \in i..Len(s) : k = Len(s) \/ s[k + 1] # " "}), <<" ">>>>
    ELSE NoMatch

\* \s+ replaced by a space
SpaceAt(s, i) ==
    IF IsSpace(s[i]) THEN <<SkipSpace(s, i) - 1, <<" ">>>> ELSE NoMatch

(***************************************************************************)
(* re.sub                                                                  *)
(***************************************************************************)

\* What the pattern named pat gives at position i of s.
MatchAt(pat, s, i) ==
    CASE pat = "table"    -> TableAt(s, i)
      [] pat = "file"     -> FileAt(s, i)
      [] pat = "image"    -> ImageAt(s, i)
      [] pat = "link"     -> LinkAt(s, i)
      [] pat = "external" -> ExternalAt(s, i)
      [] pat = "bold"     -> BoldAt(s, i)
      [] pat = "italic"   -> ItalicAt(s, i)
      [] pat = "br"       -> BrAt(s, i)
      [] pat = "tag"      -> TagAt(s, i)
      [] pat = "main"     -> MainAt(s, i)
      [] pat = "faction"  -> FactionAt(s, i)
      [] pat = "template" -> TemplateAt(s, i)
      [] pat = "space"    -> SpaceAt(s, i)

\* re.sub from position i of s on: the leftmost match is replaced, and the
\* search goes on after its end.
RECURSIVE SubFrom(_, _, _)
SubFrom(pat, s, i) ==
    IF i > Len(s) THEN <<>>
    ELSE LET m == MatchAt(pat, s, i)
         IN  IF m[1] = 0 THEN <<s[i]>> \o SubFrom(pat, s, i + 1)
             ELSE m[2] \o SubFrom(pat, s, m[1] + 1)

\* re.sub(pattern, replacement, s)
Sub(pat, s) == SubFrom(pat, s, 1)

extract_text_from_tables(text) ==
    IF ~Truthy(text) THEN <<>> ELSE Sub("table", text)

\* The substitutions of lines 53 to 81, in the order of the source.
CleanSteps ==
    << "file", "image", "link", "external", "bold", "italic", "br", "tag",
       "main", "faction", "template", "space" >>

\* The substitutions named by pats applied to s one after the other.
RECURSIVE SubAll(_, _)
SubAll(pats, s) ==
    IF pats = <<>> THEN s ELSE SubAll(Tail(pats), Sub(Head(pats), s))

\* A cleaner without the guard for a missing text: what is missing stays
\* missing.
clean_wiki_markup_unguarded(text) ==
    IF text = None THEN None
    ELSE Strip(SubAll(CleanSteps, extract_text_from_tables(text)))

clean_wiki_markup(text) ==
    IF ~Truthy(text) THEN <<>>
    ELSE Strip(SubAll(CleanSteps, extract_text_from_tables(text)))

(***************************************************************************)
(* extract_sections                                                        *)
(***************************************************************************)

\* The length of the run of equals signs that starts the line.
EqRun(line) ==
    LET stop == {k \in 1..Len(line) : line[k] # "="}
    IN  IF stop = {} THEN Len(line) ELSE Min(stop) - 1

\* What follows group 1 of the header pattern at position p: \s*==+
HeaderTail(line, p) ==
    LET q == SkipSpace(line, p) IN At(line, q, <<"=", "=">>)

\* re.match(r'^==+\s*(.+?)\s*==+', line): group 1, or None.  The leading
\* ==+ and \s* are greedy (longest first), group 1 is lazy (shortest first).
HeaderMatch(line) ==
    LET n    == Len(line)
        eqs  == EqRun(line)
        Ok(i, j, k) == /\ i + j + k <= n
                       /\ \A x \in (i + 1)..(i + j) : IsSpace(line[x])
                       /\ HeaderTail(line, i + j + k + 1)
        Is   == {i \in 2..eqs : \E j \in 0..n : \E k \in 1..n : Ok(i, j, k)}
    IN  IF Is = {} THEN None
        ELSE LET i == Max(Is)
                 j == Max({y \in 0..n : \E k \in 1..n : Ok(i, y, k)})
                 k == Min({z \in 1..n : Ok(i, j, z)})
             IN  SubSeq(line, i + j + 1, i + j + k)

\* The loop of extract_sections from line i on, and the save after it.
RECURSIVE SectionsLoop(_, _, _, _, _)
SectionsLoop(lines, i, sections, current_section, current_content) ==
    LET saved == IF Truthy(current_section)
                 THEN DictSet(sections, current_section,
                              Strip(Join(current_content, <<NL>>)))
                 ELSE sections
    IN  IF i > Len(lines) THEN saved
        ELSE LET m == HeaderMatch(lines[i])
             IN  IF m # None
                 THEN SectionsLoop(lines, i + 1, saved, Strip(m), <<>>)
                 ELSE IF Truthy(current_section)
                 THEN SectionsLoop(lines, i + 1, sections, current_section,
                                   Append(current_content, lines[i]))
                 ELSE SectionsLoop(lines, i + 1, sections, current_section,
                                   current_content)

\* A splitter that opens a lead section for the text before the first header.
extract_sections_lead(content) ==
    SectionsLoop(Split(content, <<NL>>), 1, <<>>, <<"L">>, <<>>)

extract_sections(content) ==
    SectionsLoop(Split(content, <<NL>>), 1, <<>>, None, <<>>)

(***************************************************************************)
(* Inputs of the section splitter: pages of up to MaxLines lines           *)
(***************************************************************************)

MaxLines == 4

SectionLines ==
    { <<"=", "=", "A", "=", "=">>,
      <<"=", "=", "=", " ", "A", " ", "=", "=", "=">>,
      <<"=", "=", "B", "=", "=">>,
      <<"=", "=", " ", "C", "=", "=", "=", "t">>,
      <<"=", "=", " ", "=", "=">>,
      <<"x">>,
      <<" ", "y", " ">>,
      <<>> }

SectionPages ==
    UNION { [1..n -> SectionLines] : n \in 1..MaxLines }

InitSections ==
    /\ pc = "ready"
    /\ input \in {Join(p, <<NL>>) : p \in SectionPages}
    /\ result = <<>>
    /\ again = <<>>
    /\ locals = <<>>
    /\ stdout = <<>>

ExtractSections ==
    /\ pc = "ready"
    /\ pc' = "done"
    /\ result' = extract_sections(input)
    /\ UNCHANGED <<input, again, locals, stdout>>

NextSections == ExtractSections

SpecSections == InitSections /\ [][NextSections]_vars

(***************************************************************************)
(* Properties of extract_sections                                          *)
(***************************************************************************)

PageLines == Split(input, <<NL>>)

\* The header lines of a page, by line number.
HeadsOf(L) == {i \in 1..Len(L) : HeaderMatch(L[i]) # None}

\* The trimmed header text of each header line.
NamesOf(L) == [h \in HeadsOf(L) |-> Strip(HeaderMatch(L[h]))]

\* For each header line, the lines strictly between it and the next header
\* line (or the end of the page), joined with newlines and trimmed.
BodiesOf(L) ==
    LET H == HeadsOf(L)
    IN  [h \in H |->
            Strip(Join(SubSeq(L, h + 1,
                              Min({k \in H : k > h} \cup {Len(L) + 1}) - 1),
                       <<NL>>))]

\* The k-th smallest element of a set of numbers.
Nth(S, k) == CHOOSE x \in S : Cardinality({y \in S : y < x}) = k - 1

\* The first and the last header line that carries a name.
FirstHead(N, name) == Min({h \in DOMAIN N : N[h] = name})

LastHead(N, name) == Max({h \in DOMAIN N : N[h] = name})

SectionsDone == pc = "done"

\* C1: on a page whose header lines carry pairwise distinct names,
\* extract_sections returns exactly one entry per header line, in document
\* order, each mapping the trimmed header text to the trimmed lines between
\* that header and the next one.
C1_OneEntryPerHeader ==
    SectionsDone =>
        LET N == NamesOf(PageLines)
            B == BodiesOf(PageLines)
            H == DOMAIN N
        IN  (\A g, h \in H : g # h => N[g] # N[h])
            => result = [k \in 1..Cardinality(H) |->
                            <<N[Nth(H, k)], B[Nth(H, k)]>>]

\* C2: every body of the returned mapping is made of the lines that follow
\* one header line, so no line before the first header is in any body; a
\* page without a header line yields the empty mapping.
C2_LeadDiscarded ==
    SectionsDone =>
        LET N == NamesOf(PageLines)
            B == BodiesOf(PageLines)
        IN  /\ DOMAIN N = {} => result = <<>>
            /\ \A p \in DOMAIN result :
                  \E h \in DOMAIN N : result[p] = <<N[h], B[h]>>

\* A page with text before its first header, split into sections.
C2_Witness ==
    /\ SectionsDone
    /\ LET H == HeadsOf(PageLines)
       IN  /\ H # {}
           /\ \E i \in 1..(Min(H) - 1) : Strip(PageLines[i]) # <<>>
    /\ \E p \in DOMAIN result : result[p][2] # <<>>

\* C3: the section names of the result are unique, and a name standing on
\* more than one header line has a single entry, whose body is the one that
\* follows the last of these header lines.
C3_LastWins ==
    SectionsDone =>
        LET N == NamesOf(PageLines)
            B == BodiesOf(PageLines)
        IN  /\ \A p, q \in DOMAIN result :
                  p # q => result[p][1] # result[q][1]
            /\ \A g, h \in DOMAIN N :
                  (g < h /\ N[g] = N[h]) =>
                      /\ N[h] \in Keys(result)
                      /\ DictGet(result, N[h]) = B[LastHead(N, N[h])]

\* C4 as claimed: the keys of the result stand in the order of the last
\* header line of each name (a repeated name moves to the end).
C4_OrderOfLastWrite ==
    SectionsDone =>
        LET N == NamesOf(PageLines)
        IN  \A p, q \in DOMAIN result :
                p < q <=> LastHead(N, result[p][1]) < LastHead(N, result[q][1])

\* C4, amended: the keys of the result stand in the order of the first
\* header line of each name; a repeated name keeps its first position.
C4_OrderOfFirstWrite ==
    SectionsDone =>
        LET N == NamesOf(PageLines)
        IN  \A p, q \in DOMAIN result :
                p < q <=> FirstHead(N, result[p][1]) < FirstHead(N, result[q][1])

\* A name is repeated after the header of another section, both in the result.
C4_Witness ==
    /\ SectionsDone
    /\ LET N == NamesOf(PageLines)
           B == BodiesOf(PageLines)
       IN  \E f, g, h \in DOMAIN N :
              /\ f < g /\ g < h
              /\ N[f] = N[h]
              /\ N[g] # N[f]
              /\ {N[f], N[g]} \subseteq Keys(result)
              /\ B[f] # B[h]

(***************************************************************************)
(* Inputs of the markup cleaner                                            *)
(***************************************************************************)

\* Every sequence of 0..n elements of S.
SeqsUpTo(S, n) == UNION { [1..k -> S] : k \in 0..n }

MaxTokens == 3

MaxInner == 5

MaxParts == 4

\* Pieces of markup that any text may be made of.
MarkupTokens ==
    { <<"[", "[">>, <<"]", "]">>, <<"[">>, <<"'">>, <<"<", "b", ">">>,
      <<"{", "{">>, <<"}", "}">>, <<"a">>, <<" ">> }

\* The characters of the inner text of a plain link.
LinkChars == {"A", "B", "C", "|"}

\* The parts the inner text of a plain template is made of.
TemplateParts ==
    { <<"M", "a", "i", "n">>, <<"T", "h", "e", " ">>, <<" ", "f", "a", "c", "t", "i", "o", "n">>, <<"|">>, <<"X">>, <<"Y", " ", "z">> }

MarkupTexts == {Concat(t) : t \in SeqsUpTo(MarkupTokens, MaxTokens)}

LinkTexts ==
    {<<"[", "[">> \o t \o <<"]", "]">> : t \in SeqsUpTo(LinkChars, MaxInner)}

CategoryTexts ==
    {<<"[", "[", "C", "a", "t", "e", "g", "o", "r", "y", ":">> \o t \o <<"]", "]">> : t \in {<<"X">>, <<"X", "Y">>}}

TemplateTexts ==
    {<<"{", "{">> \o Concat(t) \o <<"}", "}">> :
        t \in SeqsUpTo(TemplateParts, MaxParts)}

InitClean ==
    /\ pc = "ready"
    /\ input \in MarkupTexts \cup LinkTexts \cup CategoryTexts \cup TemplateTexts
                    \cup {None}
    /\ result = <<>>
    /\ again = <<>>
    /\ locals = <<>>
    /\ stdout = <<>>

\* text = clean_wiki_markup(text)
Clean ==
    /\ pc = "ready"
    /\ pc' = "done"
    /\ result' = clean_wiki_markup(input)
    /\ UNCHANGED <<input, again, locals, stdout>>

\* The cleaned text is cleaned once more.
CleanAgain ==
    /\ pc = "done"
    /\ pc' = "redone"
    /\ again' = clean_wiki_markup(result)
    /\ UNCHANGED <<input, result, locals, stdout>>

NextClean == Clean \/ CleanAgain

SpecClean == InitClean /\ [][NextClean]_vars

(***************************************************************************)
(* Properties of clean_wiki_markup                                         *)
(***************************************************************************)

\* s = opening \o inner \o closing: the inner text, or None.
Inner(s, opening, closing) ==
    IF /\ Len(s) >= Len(opening) + Len(closing)
       /\ At(s, 1, opening)
       /\ At(s, Len(s) - Len(closing) + 1, closing)
    THEN SubSeq(s, Len(opening) + 1, Len(s) - Len(closing))
    ELSE None

Letters == {"A", "B", "C", "X", "Y", "z"}

\* C5: cleaning a cleaned text changes nothing.
C5_Idempotent == pc = "redone" => again = result

\* The inner text of an input that is one plain link [[...]], made of letters
\* and pipes, or None.
PlainLink ==
    LET t == Inner(input, <<"[", "[">>, <<"]", "]">>)
    IN  IF t # None /\ t # <<>> /\ \A k \in DOMAIN t : t[k] \in Letters \cup {"|"}
        THEN t ELSE None

\* C6 as claimed: a link with pipes keeps only the text after its last pipe,
\* a link without a pipe keeps its target.
C6_AfterLastPipe ==
    (pc = "done" /\ PlainLink # None) =>
        LET t == PlainLink
            bars == {k \in DOMAIN t : t[k] = "|"}
        IN  result = IF bars = {} THEN t ELSE From(t, Max(bars) + 1)

\* C6, amended: a link with pipes keeps the text after its first pipe when
\* that text is not empty, and its whole inner text when it is; a link
\* without a pipe keeps its target.
C6_AfterFirstPipe ==
    (pc = "done" /\ PlainLink # None) =>
        LET t == PlainLink
            bars == {k \in DOMAIN t : t[k] = "|"}
        IN  result = IF bars = {} \/ Min(bars) = Len(t) THEN t
                     ELSE From(t, Min(bars) + 1)

\* [[A|B|C]] has been cleaned to B|C.
C6_Witness ==
    /\ pc = "done"
    /\ PlainLink = <<"A", "|", "B", "|", "C">>
    /\ result = <<"B", "|", "C">>

\* The name X of an input that is one category link [[Category:X]], or None.
CategoryLink ==
    LET t == Inner(input, <<"[", "[", "C", "a", "t", "e", "g", "o", "r", "y", ":">>, <<"]", "]">>)
    IN  IF t # None /\ t # <<>> /\ \A k \in DOMAIN t : t[k] \in Letters
        THEN t ELSE None

\* C7: of a category link neither the word Category nor the category name is
\* left in the cleaned text.
C7_CategoryRemoved ==
    (pc = "done" /\ CategoryLink # None) =>
        /\ Find(result, 1, <<"C", "a", "t", "e", "g", "o", "r", "y">>) = 0
        /\ Find(result, 1, CategoryLink) = 0

\* The letters of the words Main, The and faction.
TemplateLetters == {"M", "a", "i", "n", "T", "h", "e", "f", "c", "t", "o"}

\* The inner text of an input that is one plain template {{...}}, which
\* begins with a template name and is made of letters, spaces and pipes, or
\* None.
PlainTemplate ==
    LET t == Inner(input, <<"{", "{">>, <<"}", "}">>)
    IN  IF /\ t # None /\ t # <<>> /\ t[1] # "|"
           /\ \A k \in DOMAIN t : t[k] \in Letters \cup TemplateLetters \cup {" ", "|"}
        THEN t ELSE None

\* A text that whitespace clean-up leaves as it is.
IsTidy(x) ==
    /\ x # <<>>
    /\ x[1] # " " /\ x[Len(x)] # " "
    /\ \A k \in 1..(Len(x) - 1) : ~(x[k] = " " /\ x[k + 1] = " ")

\* C8: {{Main|X}} is cleaned to X, {{The X faction}} to "The X", and any
\* other template to the empty string.
C8_Templates ==
    (pc = "done" /\ PlainTemplate # None) =>
        LET t == PlainTemplate
            x == Inner(t, <<"M", "a", "i", "n", "|">>, <<>>)
            y == Inner(t, <<"T", "h", "e", " ">>, <<" ", "f", "a", "c", "t", "i", "o", "n">>)
        IN  IF x # None
            THEN IsTidy(x) => result = x
            ELSE IF y # None /\ y # <<>>
            THEN IsTidy(y) => result = <<"T", "h", "e", " ">> \o y
            ELSE result = <<>>

\* {{The X faction}} has been cleaned to "The X".
C8_Witness ==
    /\ pc = "done"
    /\ PlainTemplate = <<"T", "h", "e", " ">> \o <<"X">> \o <<" ", "f", "a", "c", "t", "i", "o", "n">>
    /\ result = <<"T", "h", "e", " ">> \o <<"X">>

(***************************************************************************)
(* Inputs of the table extractor                                           *)
(***************************************************************************)

MaxTableTokens == 4

\* Pieces that any text around and inside tables may be made of.
TableTokens ==
    { <<"{", "|">>, <<"|", "}">>, <<"|">>, <<"-">>, <<NL>>, <<"a">>, <<" ">> }

TableTexts == {Concat(t) : t \in SeqsUpTo(TableTokens, MaxTableTokens)}

CellTexts == { <<"a">>, <<"b", " ", "c">>, <<" ", "d">> }

\* A row of three cells, one cell per line behind the cell marker m.
GridRow(m, c) ==
    m \o c[1] \o <<NL>> \o m \o c[2] \o <<NL>> \o m \o c[3] \o <<NL>>

\* The tables of two rows with three cells per row, with or without an
\* attribute after the open marker, after the row separator, and on a line
\* of its own in the first row.
GridTexts ==
    { <<"{", "|">> \o ta \o <<NL>> \o GridRow(m, c1) \o ca
          \o <<"|", "-">> \o ra \o <<NL>> \o GridRow(<<"|">>, c2) \o <<"|", "}">> :
        ta \in {<<>>, <<" ", "c", "l", "a", "s", "s", "=", "w">>}, ca \in {<<>>, <<"|", "c", "o", "l", "s", "p", "a", "n", "=", "2", "\n">>}, ra \in {<<>>, <<" ", "s", "t", "y", "l", "e", "=", "s">>},
        m \in {<<"|">>, <<"!">>},
        c1 \in [1..3 -> CellTexts], c2 \in [1..3 -> CellTexts] }

InitTables ==
    /\ pc = "ready"
    /\ input \in TableTexts \cup GridTexts
    /\ result = <<>>
    /\ again = <<>>
    /\ locals = <<>>
    /\ stdout = <<>>

\* text = extract_text_from_tables(text)
ExtractTables ==
    /\ pc = "ready"
    /\ pc' = "done"
    /\ result' = extract_text_from_tables(input)
    /\ UNCHANGED <<input, again, locals, stdout>>

NextTables == ExtractTables

SpecTables == InitTables /\ [][NextTables]_vars

(***************************************************************************)
(* Properties of extract_text_from_tables                                  *)
(***************************************************************************)

\* The positions of s where a complete table block opens: a table-open
\* marker with a table-close marker somewhere after it.
BlockOpens(s) ==
    {i \in 1..Len(s) : At(s, i, <<"{", "|">>) /\ Find(s, i + 2, <<"|", "}">>) # 0}

\* s with its first complete table block, from the open marker to the first
\* close marker after it, replaced by the flattened block, and so on in the
\* text after that block; everything else is left as it is.
RECURSIVE BlocksReplaced(_)
BlocksReplaced(s) ==
    IF BlockOpens(s) = {} THEN s
    ELSE LET i == Min(BlockOpens(s))
             j == Find(s, i + 2, <<"|", "}">>)
         IN  SubSeq(s, 1, i - 1)
                 \o extract_table_text(SubSeq(s, i + 2, j - 1))
                 \o BlocksReplaced(From(s, j + 2))

\* C9: a text without a complete table block is returned as given, and in
\* any text only the spans from a table-open marker to the first table-close
\* marker after it are replaced; the text before, between and after these
\* spans stays unchanged and in place.
C9_OutsideUntouched ==
    pc = "done" =>
        /\ BlockOpens(input) = {} => result = input
        /\ result = BlocksReplaced(input)
        /\ LET i == Min(BlockOpens(input) \cup {Len(input) + 1})
           IN  SubSeq(result, 1, i - 1) = SubSeq(input, 1, i - 1)

\* A table with text before it and a second close marker after it has been
\* replaced: the text and the second close marker are left.
C9_Witness ==
    /\ pc = "done"
    /\ input = <<"a", "{", "|", "|", "}", "|", "}">>
    /\ BlockOpens(input) = {2}
    /\ result = <<"a", "|", "}">>

\* The lines of the input that hold a cell: they begin with a cell marker
\* and are neither a row separator, nor the close marker, nor an attribute.
CellLines(lines) ==
    {k \in DOMAIN lines :
        /\ At(lines[k], 1, <<"|">>) \/ At(lines[k], 1, <<"!">>)
        /\ ~At(lines[k], 1, <<"|", "-">>)
        /\ ~At(lines[k], 1, <<"|", "}">>)
        /\ ~At(lines[k], 2, <<"c", "o", "l", "s", "p", "a", "n", "=">>)}

\* The input is a table of two rows with three cells per row.
IsGrid(lines) ==
    /\ At(input, 1, <<"{", "|">>)
    /\ lines[Len(lines)] = <<"|", "}">>
    /\ Cardinality(CellLines(lines)) = 6
    /\ \E r \in DOMAIN lines :
          /\ At(lines[r], 1, <<"|", "-">>)
          /\ Cardinality({k \in CellLines(lines) : k < r}) = 3
          /\ \A q \in DOMAIN lines : At(lines[q], 1, <<"|", "-">>) => q = r

\* C10: a table of two rows with three cells per row is flattened to its six
\* cell texts in row-major order, joined by single spaces; no cell marker,
\* row separator, open or close marker and no attribute text is left.
C10_GridFlattened ==
    LET lines == Split(input, <<NL>>)
        cells == CellLines(lines)
    IN  (pc = "done" /\ IsGrid(lines)) =>
            /\ result = Join([k \in 1..6 |-> Tail(lines[Nth(cells, k)])], <<" ">>)
            /\ \A k \in DOMAIN result : result[k] \notin {"|", "!", "{", "}", "-", NL}
            /\ \A k \in DOMAIN result : ~At(result, k, <<"c", "l", "a", "s", "s", "=">>)
            /\ \A k \in DOMAIN result : ~At(result, k, <<"s", "t", "y", "l", "e", "=">>)
            /\ \A k \in DOMAIN result : ~At(result, k, <<"c", "o", "l", "s", "p", "a", "n", "=">>)

\* A table with all three kinds of attribute text has been flattened.
C10_Witness ==
    /\ pc = "done"
    /\ IsGrid(Split(input, <<NL>>))
    /\ Find(input, 1, <<"c", "l", "a", "s", "s", "=">>) # 0
    /\ Find(input, 1, <<"s", "t", "y", "l", "e", "=">>) # 0
    /\ Find(input, 1, <<"c", "o", "l", "s", "p", "a", "n", "=">>) # 0
    /\ At(input, 1, <<"{", "|">> \o <<" ", "c", "l", "a", "s", "s", "=", "w">> \o <<NL, "!">>)
    /\ result = <<"b", " ", "c", " ", "a", " ", " ", "d", " ", " ", "d", " ", "a", " ", "b", " ", "c">>

(***************************************************************************)
(* extract_infobox                                                         *)
(***************************************************************************)

\* The characters that \w matches.
IsWord(c) ==
    c \in
    { "a", "b", "c", "d", "e", "f", "g", "h", "i", "j", "k", "l", "m",
      "n", "o", "p", "q", "r", "s", "t", "u", "v", "w", "x", "y", "z",
      "A", "B", "C", "D", "E", "F", "G", "H", "I", "J", "K", "L", "M",
      "N", "O", "P", "Q", "R", "S", "T", "U", "V", "W", "X", "Y", "Z",
      "0", "1", "2", "3", "4", "5", "6", "7", "8", "9", "_" }

\* The match of \{\{Infobox[^}]*\n(.*?)\n\}\} (DOTALL) that begins at
\* position i of s: its group 1, or None.  [^}]* is greedy: of the newlines
\* that stand between the keyword and the first closing brace it ends before
\* the last one after which the rest of the pattern still matches; (.*?) is
\* lazy and ends before the first newline followed by two closing braces.
InfoboxAt(s, i) ==
    IF ~At(s, i, <<"{", "{", "I", "n", "f", "o", "b", "o", "x">>) THEN None
    ELSE LET p == i + 9
             stop == FirstChar(s, p, "}")
             H == {h \in p..(stop - 1) :
                      s[h] = NL /\ Find(s, h + 1, <<NL, "}", "}">>) # 0}
         IN  IF H = {} THEN None
             ELSE SubSeq(s, Max(H) + 1, Find(s, Max(H) + 1, <<NL, "}", "}">>) - 1)

\* re.search(...).group(1): the leftmost match, or None.
InfoboxSearch(content) ==
    LET hits == {i \in 1..Len(content) : InfoboxAt(content, i) # None}
    IN  IF hits = {} THEN None ELSE InfoboxAt(content, Min(hits))

\* re.match(r'\|(\w+)\s*=\s*(.+)', line): <<group 1, group 2>>, or None.
\* The second \s* gives back its last character when nothing else is left
\* for (.+).
FieldMatch(line) ==
    IF ~At(line, 1, <<"|">>) THEN None
    ELSE LET nonword == {k \in 2..Len(line) : ~IsWord(line[k])}
             w == IF nonword = {} THEN Len(line) + 1 ELSE Min(nonword)
             e == SkipSpace(line, w)
         IN  IF w = 2 \/ e >= Len(line) THEN None
             ELSE IF line[e] # "=" THEN None
             ELSE <<SubSeq(line, 2, w - 1),
                    From(line, Min({SkipSpace(line, e + 1), Len(line)}))>>

\* if value: data[key] = value
InfoboxStore(data, key, value) ==
    IF Truthy(value) THEN DictSet(data, key, value) ELSE data

\* for line in infobox_content.split('\n'): ...
RECURSIVE InfoboxLoop(_, _, _)
InfoboxLoop(lines, i, data) ==
    IF i > Len(lines) THEN data
    ELSE LET match == FieldMatch(lines[i])
         IN  IF match = None THEN InfoboxLoop(lines, i + 1, data)
             ELSE InfoboxLoop(lines, i + 1,
                      InfoboxStore(data, Strip(match[1]),
                                   clean_wiki_markup(Strip(match[2]))))

extract_infobox(content) ==
    LET infobox_content == InfoboxSearch(content)
    IN  IF infobox_content = None THEN <<>>
        ELSE InfoboxLoop(Split(infobox_content, <<NL>>), 1, <<>>)

(***************************************************************************)
(* Inputs of the infobox extractor: a template block of up to MaxFields    *)
(* lines, with or without a line before it and more text after it          *)
(***************************************************************************)

MaxFields == 3

InfoboxOpenings == { <<"{", "{", "I", "n", "f", "o", "b", "o", "x">>, <<"{", "{", "I", "n", "f", "o", "b", "o", "x", " ", "r", "a", "c", "e">>, <<"{", "{", "I", "n", "f", "o">> }

FieldLines ==
    { <<"|", "a", "=", "1">>, <<"|", "a", "=", "2", "}">>, <<"|", "a", "=", "{", "{", "x", "}", "}">>, <<"|", "b", " ", "=", " ", "3", " ">>, <<"|", " ", "c", "=", "4">> }

InfoboxClosings == { <<"}", "}">>, <<"x", "}", "}">> }

InfoboxLeads == { <<>>, << <<"x">> >> }

InfoboxTails ==
    { <<>>,
      << <<"{", "{", "I", "n", "f", "o", "b", "o", "x">>, <<"|", "c", "=", "5">>, <<"}", "}">> >>,
      << <<"{", "{", "T">>, <<"|", "z", "=", "9">>, <<"}", "}">> >>,
      << <<"|", "d", "=", "6">> >> }

InfoboxPages ==
    { lead \o <<opening>> \o fields \o <<closing>> \o tail :
        lead \in InfoboxLeads, opening \in InfoboxOpenings,
        fields \in SeqsUpTo(FieldLines, MaxFields),
        closing \in InfoboxClosings, tail \in InfoboxTails }

InitInfobox ==
    /\ pc = "ready"
    /\ input \in {Join(p, <<NL>>) : p \in InfoboxPages}
    /\ result = <<>>
    /\ again = <<>>
    /\ locals = <<>>
    /\ stdout = <<>>

\* infobox = extract_infobox(raw_content)
ExtractInfobox ==
    /\ pc = "ready"
    /\ pc' = "done"
    /\ result' = extract_infobox(input)
    /\ UNCHANGED <<input, again, locals, stdout>>

NextInfobox == ExtractInfobox

SpecInfobox == InitInfobox /\ [][NextInfobox]_vars

(***************************************************************************)
(* Properties of extract_infobox                                           *)
(***************************************************************************)

\* The lines of a page that open an Infobox block: they begin with the
\* keyword and a close marker on a line of its own follows.
InfoboxOpens(L) ==
    {i \in DOMAIN L :
        /\ At(L[i], 1, <<"{", "{", "I", "n", "f", "o", "b", "o", "x">>)
        /\ \E j \in DOMAIN L : j > i /\ L[j] = <<"}", "}">>}

\* The lines of the first Infobox block, between its opening line and the
\* first close marker after it.
FirstBlock(L) ==
    LET i == Min(InfoboxOpens(L))
        j == Min({k \in DOMAIN L : k > i /\ L[k] = <<"}", "}">>})
    IN  (i + 1)..(j - 1)

\* The pair <<key, cleaned value>> that a field line defines; None for a
\* line that is no field line.
FieldOf(line) ==
    LET m == FieldMatch(line)
    IN  IF m = None THEN None
        ELSE <<Strip(m[1]), clean_wiki_markup(Strip(m[2]))>>

\* C11: a page without an Infobox block yields the empty mapping, and on a
\* page with one or more Infobox blocks every pair of the result is defined
\* by a field line of the first block, so that nothing found only in a later
\* block is returned.
C11_FirstBlockOnly ==
    pc = "done" =>
        LET L == PageLines
        IN  /\ Find(input, 1, <<"{", "{", "I", "n", "f", "o", "b", "o", "x">>) = 0 => result = <<>>
            /\ InfoboxOpens(L) # {} =>
                  \A p \in DOMAIN result :
                      \E k \in FirstBlock(L) : FieldOf(L[k]) = result[p]

\* C12: every value of the result is a non-empty string; a key is in the
\* result only when a field line of the block gives it a value that does
\* not clean to the empty string, and it then holds the cleaned value of the
\* last such line.
C12_LastNonEmptyValue ==
    (pc = "done" /\ InfoboxOpens(PageLines) # {}) =>
        LET L == PageLines
            F == [k \in FirstBlock(L) |-> FieldOf(L[k])]
            live == {k \in DOMAIN F : F[k] # None /\ F[k][2] # <<>>}
        IN  /\ \A p \in DOMAIN result : Truthy(result[p][2])
            /\ Keys(result) = {F[k][1] : k \in live}
            /\ \A k \in live :
                  (\A j \in live : F[j][1] = F[k][1] => j <= k)
                      => DictGet(result, F[k][1]) = F[k][2]

(***************************************************************************)
(* extract_list_items                                                      *)
(***************************************************************************)

\* A test that takes a line for a bullet line only when the marker stands
\* in its first column.
IsBulletUntrimmed(line) == At(line, 1, <<"*">>)

\* line.strip().startswith('*')
IsBullet(line) == At(Strip(line), 1, <<"*">>)

\* for line in text.split('\n'): ...
RECURSIVE ListLoop(_, _, _)
ListLoop(lines, i, items) ==
    IF i > Len(lines) THEN items
    ELSE IF ~IsBullet(lines[i]) THEN ListLoop(lines, i + 1, items)
    ELSE LET item == clean_wiki_markup(Strip(Tail(Strip(lines[i]))))
         IN  IF Truthy(item) THEN ListLoop(lines, i + 1, Append(items, item))
             ELSE ListLoop(lines, i + 1, items)

extract_list_items(text) == ListLoop(Split(text, <<NL>>), 1, <<>>)

(***************************************************************************)
(* Inputs of the list extractor: texts of up to MaxItemLines lines         *)
(***************************************************************************)

MaxItemLines == 3

ItemLines ==
    { <<"*", " ", "o", "n", "e">>, <<"n", "o", "t", " ", "a", " ", "b", "u", "l", "l", "e", "t">>, <<"*", " ", "t", "w", "o">>, <<" ", " ", "*", " ", "[", "[", "a", "|", "b", "]", "]">>, <<"*">>,
      <<"*", " ", "{", "{", "x", "}", "}">>, <<"*", "*", " ", "c">> }

ItemTexts ==
    UNION { [1..n -> ItemLines] : n \in 1..MaxItemLines }

InitList ==
    /\ pc = "ready"
    /\ input \in {Join(p, <<NL>>) : p \in ItemTexts}
    /\ result = <<>>
    /\ again = <<>>
    /\ locals = <<>>
    /\ stdout = <<>>

\* list_items = extract_list_items(section_content)
ExtractListItems ==
    /\ pc = "ready"
    /\ pc' = "done"
    /\ result' = extract_list_items(input)
    /\ UNCHANGED <<input, again, locals, stdout>>

NextList == ExtractListItems

SpecList == InitList /\ [][NextList]_vars

(***************************************************************************)
(* Properties of extract_list_items                                        *)
(***************************************************************************)

\* What follows the marker of a bullet line, trimmed and cleaned.
CleanedRemainder(line) == clean_wiki_markup(Strip(Tail(Strip(line))))

\* The lines that give an item: their trimmed form begins with the marker
\* and the remainder does not clean to the empty string.
ItemLinesOf(L) ==
    {k \in DOMAIN L :
        /\ Strip(L[k]) # <<>>
        /\ Head(Strip(L[k])) = "*"
        /\ CleanedRemainder(L[k]) # <<>>}

\* C13: the result holds, in line order, the cleaned remainder of exactly
\* the lines whose trimmed form begins with the marker and whose cleaned
\* remainder is not empty; no other line adds or changes an item.  The lines
\* "* one", "not a bullet", "* two" yield one, two.
C13_BulletLinesInOrder ==
    pc = "done" =>
        LET L == PageLines
            B == ItemLinesOf(L)
        IN  /\ result = [n \in 1..Cardinality(B) |-> CleanedRemainder(L[Nth(B, n)])]
            /\ input = <<"*", " ", "o", "n", "e", NL, "n", "o", "t", " ", "a", " ", "b", "u", "l", "l", "e", "t", NL, "*", " ", "t", "w", "o">>
                  => result = << <<"o", "n", "e">>, <<"t", "w", "o">> >>

\* The three lines of the example have been read: two items.
C13_Witness ==
    /\ pc = "done"
    /\ input = <<"*", " ", "o", "n", "e", NL, "n", "o", "t", " ", "a", " ", "b", "u", "l", "l", "e", "t", NL, "*", " ", "t", "w", "o">>
    /\ result = << <<"o", "n", "e">>, <<"t", "w", "o">> >>

(***************************************************************************)
(* parse_race_page                                                         *)
(***************************************************************************)

UpperCase ==
    << "A", "B", "C", "D", "E", "F", "G", "H", "I", "J", "K", "L",
       "M", "N", "O", "P", "Q", "R", "S", "T", "U", "V", "W", "X",
       "Y", "Z" >>

LowerCase ==
    << "a", "b", "c", "d", "e", "f", "g", "h", "i", "j", "k", "l",
       "m", "n", "o", "p", "q", "r", "s", "t", "u", "v", "w", "x",
       "y", "z" >>

\* str.lower()
Lower(s) ==
    [k \in DOMAIN s |->
        IF \E n \in DOMAIN UpperCase : UpperCase[n] = s[k]
        THEN LowerCase[CHOOSE n \in DOMAIN UpperCase : UpperCase[n] = s[k]]
        ELSE s[k]]

\* s.replace(a, b) for single characters a and b
Replace(s, a, b) == [k \in DOMAIN s |-> IF s[k] = a THEN b ELSE s[k]]

\* None where a list of strings is expected: the list of the one string
\* that is no string, which no list of strings equals.
NoList == <<None>>

\* A record that keeps the empty list.
ListOrNoneKeepEmpty(list_items) == list_items

\* list_items if list_items else None
ListOrNone(list_items) == IF list_items # <<>> THEN list_items ELSE NoList

\* A content that is cleaned from the lines that are no bullet lines.
SectionContentProse(section_content) ==
    clean_wiki_markup(
        Join(SelectSeq(Split(section_content, <<NL>>), LAMBDA l : ~IsBullet(l)),
             <<NL>>))

\* cleaned_content = clean_wiki_markup(section_content)
SectionContent(section_content) == clean_wiki_markup(section_content)

\* for section_name, section_content in sections.items(): ...
\* The names of a dict are distinct, so every assignment adds an entry.
SectionRecords(sections) ==
    [p \in DOMAIN sections |->
        <<sections[p][1],
          [content |-> SectionContent(sections[p][2]),
           list_items |-> ListOrNone(extract_list_items(sections[p][2]))]>>]

\* An exception that leaves the call.
Raise(e) == [raised |-> e]

\* A parser that takes the match of the infobox pattern for granted.
parse_race_page_unguarded(raw_content, race_name) ==
    IF raw_content = None THEN Raise("TypeError")
    ELSE IF InfoboxSearch(raw_content) = None THEN Raise("AttributeError")
    ELSE [race_id |-> Replace(Lower(race_name), " ", "_"),
          name |-> Replace(race_name, "_", " "),
          infobox |-> extract_infobox(raw_content),
          sections |-> SectionRecords(extract_sections(raw_content))]

\* re.search raises TypeError when it is given None for a string.
parse_race_page(raw_content, race_name) ==
    IF raw_content = None THEN Raise("TypeError")
    ELSE [race_id |-> Replace(Lower(race_name), " ", "_"),
          name |-> Replace(race_name, "_", " "),
          infobox |-> extract_infobox(raw_content),
          sections |-> SectionRecords(extract_sections(raw_content))]

(***************************************************************************)
(* Inputs of the page parser: a raw body of up to MaxPageLines lines, the  *)
(* body of the end-to-end example, the empty body or no body, and a title  *)
(***************************************************************************)

MaxPageLines == 3

ParseLines ==
    { <<"=", "=", " ", "A", " ", "=", "=">>, <<"=", "=", " ", "=", "=">>, <<"*", " ", "o", "n", "e">>, <<"*", " ", "{", "{", "x", "}", "}">>, <<"t", " ", "{", "{", "x">>, <<"{", "|">>,
      <<"{", "{", "I", "n", "f", "o", "b", "o", "x">>, <<"|", "k", "=", "v", " ", "\t", "w">>,
      <<"*", " ", " ", "b", "\t", " ", "c", " ">>, <<"}", "}">>, <<"'", "'", "'", "b", "'", "'">> }

ExampleBody ==
    <<"{", "{", "I", "n", "f", "o", "b", "o", "x", NL, "|", "d", "i", "f", "f", "i", "c", "u", "l", "t", "y", "=", "H", "a", "r", "d", NL, "}", "}", NL, "=", "=", " ", "B", "a", "c", "k", "g", "r", "o", "u", "n", "d", " ", "=", "=", NL, "T", "h", "e", " ", "'", "'", "'", "E", "m", "p", "i", "r", "e", "'", "'", "'", " ", "i", "s", " ", "o", "l", "d", ".", NL, "=", "=", " ", "U", "n", "i", "t", "s", " ", "=", "=", NL, "*", " ", "S", "p", "e", "a", "r", "m", "e", "n", NL, "*", " ", "A", "r", "c", "h", "e", "r", "s">>

ExampleTitle == <<"S", "o", "m", "e", "_", "R", "a", "c", "e">>

RawBodies ==
    {None, ExampleBody}
        \cup {Join(p, <<NL>>) : p \in SeqsUpTo(ParseLines, MaxPageLines)}

Titles == { ExampleTitle, <<"H", "i", "g", "h", " ", "e", "l", "v", "e", "s">> }

InitParse ==
    /\ pc = "ready"
    /\ input \in RawBodies \X Titles
    /\ result = <<>>
    /\ again = <<>>
    /\ locals = <<>>
    /\ stdout = <<>>

\* parsed_data = parse_race_page(raw_content, race_name)
ParseRacePage ==
    /\ pc = "ready"
    /\ pc' = "done"
    /\ result' = parse_race_page(input[1], input[2])
    /\ UNCHANGED <<input, again, locals, stdout>>

NextParse == ParseRacePage

SpecParse == InitParse /\ [][NextParse]_vars

(***************************************************************************)
(* Properties of parse_race_page                                           *)
(***************************************************************************)

\* The call was left by an exception.
Raised(x) == DOMAIN x = {"raised"}

\* The text has a line whose trimmed form begins with the bullet marker.
HasBulletLine(text) ==
    \E k \in DOMAIN Split(text, <<NL>>) :
        At(Strip(Split(text, <<NL>>)[k]), 1, <<"*">>)

\* C14: in a returned record the list_items of a section is never the empty
\* list; it is a list only when the raw body of the section has a bullet
\* line, and it is None when the body has none and whenever
\* extract_list_items finds no item in the body.
C14_ListItemsNeverEmpty ==
    (pc = "done" /\ ~Raised(result)) =>
        LET S == extract_sections(input[1])
        IN  \A p \in DOMAIN result.sections :
                LET items == result.sections[p][2].list_items
                    body == DictGet(S, result.sections[p][1])
                IN  /\ items # <<>>
                    /\ items # NoList => HasBulletLine(body)
                    /\ ~HasBulletLine(body) => items = NoList
                    /\ extract_list_items(body) = <<>> => items = NoList
                    /\ extract_list_items(body) # <<>>
                          => items = extract_list_items(body)

\* A page has been parsed whose section has a bullet line that cleans to
\* nothing: the section has no list_items.
C14_Witness ==
    /\ pc = "done"
    /\ input[1] = <<"=", "=", " ", "A", " ", "=", "=", NL, "*", " ", "{", "{", "x", "}", "}">>
    /\ result.sections[1][2].list_items = NoList

\* C15: for an empty raw body and for no raw body the call is left by an
\* InputError, and no record is returned.
C15_EmptyBodyFails ==
    (pc = "done" /\ ~Truthy(input[1])) => result = Raise("InputError")

\* C16: for a non-empty raw body the call returns a record: it has one
\* section per section of the body, in the same order, and each has a
\* content string.
C16_NeverRaises ==
    (pc = "done" /\ Truthy(input[1])) =>
        /\ ~Raised(result)
        /\ LET S == extract_sections(input[1])
           IN  /\ Len(result.sections) = Len(S)
               /\ \A p \in DOMAIN S :
                     /\ result.sections[p][1] = S[p][1]
                     /\ result.sections[p][2].content # None

\* A body with an unclosed template and an unclosed table has been parsed
\* into a record with a section.
C16_Witness ==
    /\ pc = "done"
    /\ input[1] = <<"=", "=", " ", "A", " ", "=", "=", NL, "t", " ", "{", "{", "x", NL, "{", "|">>
    /\ ~Raised(result)
    /\ result.sections[1][2].content = <<"t", " ", "{", "{", "x", " ", "{", "|">>

\* The record of the example but for the content of its section Units.
ExampleRecord(units) ==
    [race_id |-> <<"s", "o", "m", "e", "_", "r", "a", "c", "e">>,
     name |-> <<"S", "o", "m", "e", " ", "R", "a", "c", "e">>,
     infobox |-> << << <<"d", "i", "f", "f", "i", "c", "u", "l", "t", "y">>, <<"H", "a", "r", "d">> >> >>,
     sections |->
        << << <<"B", "a", "c", "k", "g", "r", "o", "u", "n", "d">>,
              [content |-> <<"T", "h", "e", " ", "E", "m", "p", "i", "r", "e", " ", "i", "s", " ", "o", "l", "d", ".">>, list_items |-> NoList] >>,
           << <<"U", "n", "i", "t", "s">>,
              [content |-> units,
               list_items |-> << <<"S", "p", "e", "a", "r", "m", "e", "n">>, <<"A", "r", "c", "h", "e", "r", "s">> >>] >> >>]

\* The raw body of a section is made of bullet lines only.
OnlyBulletLines(text) ==
    \A k \in DOMAIN Split(text, <<NL>>) :
        At(Strip(Split(text, <<NL>>)[k]), 1, <<"*">>)

\* C17 as claimed: the example yields the record whose section Units has the
\* empty content, and a section made of bullet lines only has the empty
\* content.
C17_BulletsLeaveNoContent ==
    (pc = "done" /\ ~Raised(result)) =>
        /\ (input = <<ExampleBody, ExampleTitle>>) => result = ExampleRecord(<<>>)
        /\ LET S == extract_sections(input[1])
           IN  \A p \in DOMAIN result.sections :
                   OnlyBulletLines(S[p][2])
                       => result.sections[p][2].content = <<>>

\* C17, amended: the example yields the record whose section Units has the
\* content "* Spearmen * Archers"; the content of every section is its
\* cleaned raw body, bullet lines and their markers included, so that a
\* section made of bullet lines only has a content that begins with the
\* marker.
C17_BulletsStayInContent ==
    (pc = "done" /\ ~Raised(result)) =>
        /\ (input = <<ExampleBody, ExampleTitle>>)
              => result = ExampleRecord(<<"*", " ", "S", "p", "e", "a", "r", "m", "e", "n", " ", "*", " ", "A", "r", "c", "h", "e", "r", "s">>)
        /\ LET S == extract_sections(input[1])
           IN  \A p \in DOMAIN result.sections :
                   /\ result.sections[p][2].content = clean_wiki_markup(S[p][2])
                   /\ OnlyBulletLines(S[p][2])
                         => At(result.sections[p][2].content, 1, <<"*">>)

\* The example has been parsed.
C17_Witness ==
    /\ pc = "done"
    /\ input = <<ExampleBody, ExampleTitle>>
    /\ result.sections[2][2].content = <<"*", " ", "S", "p", "e", "a", "r", "m", "e", "n", " ", "*", " ", "A", "r", "c", "h", "e", "r", "s">>

(***************************************************************************)
(* The cleaner on an empty or missing text                                 *)
(***************************************************************************)

\* C18: for the empty text and for a missing text (None) the cleaner
\* returns the empty string, not None, and cleaning its result again gives
\* the empty string too.
C18_EmptyOrMissing ==
    (pc # "ready" /\ input \in {<<>>, None}) =>
        /\ result = <<>>
        /\ pc = "redone" => again = <<>>

\* A missing text has been cleaned to the empty string.
C18_Witness ==
    /\ pc = "done"
    /\ input = None
    /\ result = <<>>

(***************************************************************************)
(* The batch drivers: wiki_parser.main and wiki_scraper.main               *)
(***************************************************************************)

\* str.upper()
Upper(s) ==
    [k \in DOMAIN s |->
        IF \E n \in DOMAIN LowerCase : LowerCase[n] = s[k]
        THEN UpperCase[CHOOSE n \in DOMAIN LowerCase : LowerCase[n] = s[k]]
        ELSE s[k]]

IsCased(c) ==
    \/ \E n \in DOMAIN LowerCase : LowerCase[n] = c
    \/ \E n \in DOMAIN UpperCase : UpperCase[n] = c

\* str.title(): a letter that follows a letter is lowered, any other letter
\* is raised.
Title(s) ==
    [k \in DOMAIN s |->
        IF k > 1 /\ IsCased(s[k - 1]) THEN Lower(<<s[k]>>)[1]
        ELSE Upper(<<s[k]>>)[1]]

\* The content of a file whose bytes are no UTF-8 text: f.read() raises
\* UnicodeDecodeError.
NotUtf8 == <<"NotUtf8">>

BASE_GAME_RACES ==
    << <<"G", "r", "a", "n", "d", "_", "C", "a", "t", "h", "a", "y">>, <<"K", "i", "s", "l", "e", "v">>, <<"K", "h", "o", "r", "n", "e">>, <<"T", "z", "e", "e", "n", "t", "c", "h">>, <<"N", "u", "r", "g", "l", "e">>,
       <<"S", "l", "a", "a", "n", "e", "s", "h">>, <<"D", "a", "e", "m", "o", "n", "s", "_", "o", "f", "_", "C", "h", "a", "o", "s">>, <<"O", "g", "r", "e", "_", "K", "i", "n", "g", "d", "o", "m", "s">> >>

\* What fetch_wiki_page returns with what it prints: the content of the
\* page, the empty default of a page without content, None for a page that
\* is not found, None for any exception of the request.
FetchOutcomes ==
    { <<<<"=", "=", " ", "A", " ", "=", "=", NL, "x">>, <<>>>>,
      <<<<>>, <<>>>>,
      <<None, <<"Page not found">>>>,
      <<None, <<"Error fetching">>>> }

\* A file name that leaves out the stem: every page is saved under the same
\* name.
FileNameShared(stem, suffix) == suffix

\* A file name made of a stem and a suffix.
FileName(stem, suffix) == stem \o suffix

\* print(...): a line of the output is the message and what it is about.
WriteLine(out, message, about) == Append(out, <<message, about>>)

\* wiki_parser.main up to the loop, the directory of raw files missing.
ParserNoRawData ==
    /\ pc = "start"
    /\ input.program = "wiki_parser"
    /\ ~input.exists
    /\ pc' = "done"
    /\ stdout' = WriteLine(WriteLine(stdout, "Starting", <<>>),
                          "No raw data found", <<>>)
    /\ UNCHANGED <<input, result, again, locals>>

\* wiki_parser.main up to the loop.
ParserStart ==
    /\ pc = "start"
    /\ input.program = "wiki_parser"
    /\ input.exists
    /\ pc' = "loop"
    /\ locals' = [i |-> 1]
    /\ stdout' = WriteLine(stdout, "Starting", <<>>)
    /\ UNCHANGED <<input, result, again>>

\* One turn of the loop of wiki_parser.main: the file is read, parsed and
\* saved.
ParserPage ==
    /\ pc = "loop"
    /\ input.program = "wiki_parser"
    /\ locals.i <= Len(input.pages)
    /\ LET raw_file == input.pages[locals.i]
           stem == raw_file[1]
           raw_content == raw_file[2]
           race_name == Title(Replace(stem, "_", " "))
           output_file == FileName(stem, <<".", "j", "s", "o", "n">>)
       IN  /\ raw_content # NotUtf8
           /\ result' = DictSet(result, output_file,
                                parse_race_page(raw_content, race_name))
           /\ stdout' = WriteLine(WriteLine(stdout, "Parsing", FileName(stem, <<".", "t", "x", "t">>)),
                              "Saved", output_file)
    /\ locals' = [i |-> locals.i + 1]
    /\ UNCHANGED <<pc, input, again>>

\* One turn of the loop of wiki_parser.main: f.read() raises, nothing
\* catches the exception and main is left.
ParserPageFails ==
    /\ pc = "loop"
    /\ input.program = "wiki_parser"
    /\ locals.i <= Len(input.pages)
    /\ input.pages[locals.i][2] = NotUtf8
    /\ pc' = "aborted"
    /\ stdout' = WriteLine(stdout, "Parsing",
                       FileName(input.pages[locals.i][1], <<".", "t", "x", "t">>))
    /\ UNCHANGED <<input, result, again, locals>>

\* wiki_parser.main after the loop.
ParserEnd ==
    /\ pc = "loop"
    /\ input.program = "wiki_parser"
    /\ locals.i > Len(input.pages)
    /\ pc' = "done"
    /\ stdout' = WriteLine(stdout, "Parsing complete!", <<>>)
    /\ UNCHANGED <<input, result, again, locals>>

\* wiki_scraper.main up to the loop.
ScraperStart ==
    /\ pc = "start"
    /\ input.program = "wiki_scraper"
    /\ pc' = "loop"
    /\ locals' = [i |-> 1]
    /\ stdout' = WriteLine(stdout, "Starting", <<>>)
    /\ UNCHANGED <<input, result, again>>

\* One turn of the loop of wiki_scraper.main: the page is fetched and, when
\* it has a content, saved; it is skipped when it has none.
ScraperPage ==
    /\ pc = "loop"
    /\ input.program = "wiki_scraper"
    /\ locals.i <= Len(input.pages)
    /\ \E fetched \in FetchOutcomes :
          LET race == input.pages[locals.i]
              content == fetched[1]
              output_file == FileName(Lower(race), <<".", "t", "x", "t">>)
              out == WriteLine(stdout, "Fetching", race) \o
                         [k \in DOMAIN fetched[2] |-> <<fetched[2][k], race>>]
          IN  IF Truthy(content)
              THEN /\ result' = DictSet(result, output_file, content)
                   /\ stdout' = WriteLine(out, "Saved", output_file)
              ELSE /\ result' = result
                   /\ stdout' = WriteLine(out, "Skipped", race)
    /\ locals' = [i |-> locals.i + 1]
    /\ UNCHANGED <<pc, input, again>>

\* wiki_scraper.main after the loop.
ScraperEnd ==
    /\ pc = "loop"
    /\ input.program = "wiki_scraper"
    /\ locals.i > Len(input.pages)
    /\ pc' = "done"
    /\ stdout' = WriteLine(stdout, "Scraping complete!", <<>>)
    /\ UNCHANGED <<input, result, again, locals>>

(***************************************************************************)
(* Inputs of the batch drivers: a directory of up to MaxBatch raw files,   *)
(* listed in any order, for the parser; the list of races for the scraper  *)
(***************************************************************************)

MaxBatch == 3

RawFiles ==
    { << <<"k", "i", "s", "l", "e", "v">>, <<"=", "=", " ", "A", " ", "=", "=", NL, "*", " ", "o", "n", "e">> >>,
      << <<"g", "r", "a", "n", "d", "_", "c", "a", "t", "h", "a", "y">>, <<"{", "{", "I", "n", "f", "o", "b", "o", "x", NL, "|", "k", "=", "v", NL, "}", "}">> >>,
      << <<"k", "h", "o", "r", "n", "e">>, <<>> >>,
      << <<"n", "o", "t", "e", "s">>, NotUtf8 >> }

\* The listings of a directory of up to MaxBatch files: no file twice.
Listings ==
    {p \in SeqsUpTo(RawFiles, MaxBatch) :
        \A j, k \in DOMAIN p : j # k => p[j] # p[k]}

InitMain ==
    /\ pc = "start"
    /\ input \in {[program |-> "wiki_parser", exists |-> TRUE, pages |-> p] :
                      p \in Listings}
                 \cup {[program |-> "wiki_parser", exists |-> FALSE, pages |-> <<>>],
                       [program |-> "wiki_scraper", exists |-> TRUE,
                        pages |-> BASE_GAME_RACES]}
    /\ result = <<>>
    /\ again = <<>>
    /\ locals = <<>>
    /\ stdout = <<>>

NextMain ==
    \/ ParserNoRawData
    \/ ParserStart
    \/ ParserPage
    \/ ParserPageFails
    \/ ParserEnd
    \/ ScraperStart
    \/ ScraperPage
    \/ ScraperEnd

SpecMain == InitMain /\ [][NextMain]_vars

(***************************************************************************)
(* Properties of the batch drivers                                         *)
(***************************************************************************)

\* The name under which a page of the batch is printed as saved.
SavedAs(page) ==
    IF input.program = "wiki_parser" THEN FileName(page[1], <<".", "j", "s", "o", "n">>)
    ELSE FileName(Lower(page), <<".", "t", "x", "t">>)

\* The name under which a page of the batch is printed as skipped.
SkippedAs(page) == IF input.program = "wiki_parser" THEN page[1] ELSE page

\* Page k of the batch has been saved or skipped.
Handled(k) ==
    \E n \in DOMAIN stdout :
        \/ stdout[n] = <<"Saved", SavedAs(input.pages[k])>>
        \/ stdout[n] = <<"Skipped", SkippedAs(input.pages[k])>>

\* C19: no failure on a page makes a driver leave its batch, and a driver
\* that has come to its end has saved or skipped every page of the batch.
C19_FailureNeverAborts ==
    /\ pc # "aborted"
    /\ pc = "done" => \A k \in DOMAIN input.pages : Handled(k)

(***************************************************************************)
(* Pages parsed side by side: one caller per raw file runs the body of the *)
(* loop of wiki_parser.main, a step at a time, and may give a call up and  *)
(* start it again                                                          *)
(***************************************************************************)

\* race_data as parse_race_page builds it before its loop.
NewRaceData(race_name, infobox) ==
    [race_id |-> Replace(Lower(race_name), " ", "_"),
     name |-> Replace(race_name, "_", " "),
     infobox |-> infobox,
     sections |-> <<>>]

\* The file is read and parse_race_page is entered: its local variables are
\* made from the raw content and the title alone.
WorkerCall(k) ==
    /\ pc[k] = "idle"
    /\ LET raw_content == input[k][2]
           race_name == Title(Replace(input[k][1], "_", " "))
       IN  locals' = [locals EXCEPT ![k] =
               [sections |-> extract_sections(raw_content),
                race_data |-> NewRaceData(race_name, extract_infobox(raw_content)),
                next |-> 1]]
    /\ pc' = [pc EXCEPT ![k] = "parsing"]
    /\ UNCHANGED <<input, result, again, stdout>>

\* One turn of the loop of parse_race_page: the next section is cleaned and
\* put into race_data.
WorkerSection(k) ==
    /\ pc[k] = "parsing"
    /\ locals[k].next <= Len(locals[k].sections)
    /\ LET section == locals[k].sections[locals[k].next]
           entry == [content |-> SectionContent(section[2]),
                     list_items |-> ListOrNone(extract_list_items(section[2]))]
       IN  locals' = [locals EXCEPT
               ![k].race_data.sections = DictSet(@, section[1], entry),
               ![k].next = @ + 1]
    /\ UNCHANGED <<pc, input, result, again, stdout>>

\* parse_race_page returns race_data and the caller saves it under the name
\* of the raw file.
WorkerReturn(k) ==
    /\ pc[k] = "parsing"
    /\ locals[k].next > Len(locals[k].sections)
    /\ result' = DictSet(result, FileName(input[k][1], <<".", "j", "s", "o", "n">>),
                         locals[k].race_data)
    /\ locals' = [locals EXCEPT ![k] = <<>>]
    /\ pc' = [pc EXCEPT ![k] = "done"]
    /\ UNCHANGED <<input, again, stdout>>

\* The caller gives the call up: its local variables are gone, nothing has
\* been written, and the page may be parsed again.
WorkerAbandon(k) ==
    /\ pc[k] = "parsing"
    /\ locals' = [locals EXCEPT ![k] = <<>>]
    /\ pc' = [pc EXCEPT ![k] = "idle"]
    /\ UNCHANGED <<input, result, again, stdout>>

MaxWorkers == 3

TextFiles ==
    { << <<"k", "i", "s", "l", "e", "v">>, <<"=", "=", " ", "A", " ", "=", "=", NL, "*", " ", "o", "n", "e">> >>,
      << <<"g", "r", "a", "n", "d", "_", "c", "a", "t", "h", "a", "y">>, <<"{", "{", "I", "n", "f", "o", "b", "o", "x", NL, "|", "k", "=", "v", NL, "}", "}">> >>,
      << <<"k", "h", "o", "r", "n", "e">>, <<>> >>,
      << <<"s", "o", "m", "e", "_", "r", "a", "c", "e">>, ExampleBody >> }

InitWorkers ==
    /\ input \in {p \in SeqsUpTo(TextFiles, MaxWorkers) :
                     /\ p # <<>>
                     /\ \A j, k \in DOMAIN p : j # k => p[j] # p[k]}
    /\ pc = [k \in DOMAIN input |-> "idle"]
    /\ locals = [k \in DOMAIN input |-> <<>>]
    /\ result = <<>>
    /\ again = <<>>
    /\ stdout = <<>>

NextWorkers ==
    \E k \in DOMAIN input :
        \/ WorkerCall(k)
        \/ WorkerSection(k)
        \/ WorkerReturn(k)
        \/ WorkerAbandon(k)

SpecWorkers == InitWorkers /\ [][NextWorkers]_vars

(***************************************************************************)
(* Properties of pages parsed side by side                                 *)
(***************************************************************************)

\* The record of page k when it is parsed alone, from start to end.
RecordOf(k) ==
    parse_race_page(input[k][2], Title(Replace(input[k][1], "_", " ")))

\* C20: whatever the order and the interleaving of the calls, and however
\* often a call was given up and started again, the records saved are those
\* of the pages that are done, each the record that its page yields when it
\* is parsed alone; a call in progress holds what its own page yields up to
\* its step, and a call that returned or was given up leaves nothing behind.
C20_Independent ==
    /\ Keys(result) = {input[k][1] \o <<".", "j", "s", "o", "n">> : k \in {j \in DOMAIN input : pc[j] = "done"}}
    /\ \A k \in DOMAIN input :
          /\ pc[k] = "done" => DictGet(result, input[k][1] \o <<".", "j", "s", "o", "n">>) = RecordOf(k)
          /\ pc[k] # "parsing" => locals[k] = <<>>
          /\ pc[k] = "parsing" =>
                /\ locals[k].sections = extract_sections(input[k][2])
                /\ locals[k].race_data =
                      [RecordOf(k) EXCEPT !.sections =
                          SubSeq(@, 1, locals[k].next - 1)]

\* Three pages are done and were saved in another order than they are
\* listed in.
C20_Witness ==
    /\ Len(input) = 3
    /\ \A k \in DOMAIN input : pc[k] = "done"
    /\ result[1][1] = input[3][1] \o <<".", "j", "s", "o", "n">>
    /\ \E p \in DOMAIN result : result[p][2].sections # <<>>

(***************************************************************************)
(* The span of the infobox body                                            *)
(***************************************************************************)

\* C21: on a page with an Infobox block the body that is read is made of
\* exactly the lines between the opening line of the first block and the
\* first close marker on a line of its own after it, and every pair of the
\* result is defined by a field line of that span, whatever follows the
\* block.
C21_BodyEndsAtFirstClose ==
    (pc = "done" /\ InfoboxOpens(PageLines) # {}) =>
        LET L == PageLines
            span == FirstBlock(L)
            body == [n \in 1..Cardinality(span) |-> L[Nth(span, n)]]
        IN  /\ InfoboxSearch(input) = Join(body, <<NL>>)
            /\ \A p \in DOMAIN result :
                  \E k \in span : FieldOf(L[k]) = result[p]

(***************************************************************************)
(* Header lines of every kind                                              *)
(***************************************************************************)

\* C22: every line that matches the header pattern opens a section named by
\* its trimmed inner text, be that text empty or followed by more text on
\* the line: the name is a key of the result, and the body that follows the
\* last header line of a name is the body of its section.
C22_EveryHeaderOpensSection ==
    SectionsDone =>
        LET N == NamesOf(PageLines)
            B == BodiesOf(PageLines)
        IN  \A h \in DOMAIN N :
                /\ N[h] \in Keys(result)
                /\ h = LastHead(N, N[h]) => DictGet(result, N[h]) = B[h]

(***************************************************************************)
(* The cleaner against the stages in the order of the specification       *)
(***************************************************************************)

\* The substitutions of the eleven stages in their specified order, after
\* the tables: main-article template, faction-name template, remaining
\* templates, file and image links, category links, internal links,
\* external links, bold and italic markers, line breaks and tags, whitespace.
SpecOrderSteps ==
    << "main", "faction", "template", "file", "image", "category", "link",
       "external", "bold", "italic", "br", "tag", "space" >>

\* What a stage gives at position i of s: the category stage removes a
\* category link as the file and image stages remove theirs, every other
\* stage is the substitution of that name.
StageAt(pat, s, i) ==
    IF pat = "category" THEN PrefixLinkAt(s, i, <<"[", "[", "C", "a", "t", "e", "g", "o", "r", "y", ":">>)
    ELSE MatchAt(pat, s, i)

RECURSIVE StageFrom(_, _, _)
StageFrom(pat, s, i) ==
    IF i > Len(s) THEN <<>>
    ELSE LET m == StageAt(pat, s, i)
         IN  IF m[1] = 0 THEN <<s[i]>> \o StageFrom(pat, s, i + 1)
             ELSE m[2] \o StageFrom(pat, s, m[1] + 1)

RECURSIVE StagesAll(_, _)
StagesAll(pats, s) ==
    IF pats = <<>> THEN s
    ELSE StagesAll(Tail(pats), StageFrom(Head(pats), s, 1))

\* The text cleaned by the stages in the specified order.
SpecOrderClean(text) ==
    IF ~Truthy(text) THEN <<>>
    ELSE Strip(StagesAll(SpecOrderSteps, extract_text_from_tables(text)))

\* C23: the cleaner gives what the eleven stages give in the order of the
\* specification, templates being rewritten and removed before links are
\* resolved and before quote markers and tags are removed.
C23_SpecOrder == pc = "done" => result = SpecOrderClean(input)

(***************************************************************************)
(* Whitespace in the strings of a record                                   *)
(***************************************************************************)

\* A string without whitespace at its ends, without newline or tab, and
\* without two whitespace characters in a row.
Normalized(s) ==
    /\ s # <<>> => ~IsSpace(s[1]) /\ ~IsSpace(s[Len(s)])
    /\ \A k \in DOMAIN s : s[k] \notin {NL, "\t"}
    /\ \A k \in 1..(Len(s) - 1) : ~(IsSpace(s[k]) /\ IsSpace(s[k + 1]))

\* C24: every string that the cleaner has put into a record, be it an
\* infobox value, a section content or a list item, is normalized.
C24_WhitespaceNormalized ==
    (pc = "done" /\ ~Raised(result)) =>
        /\ \A p \in DOMAIN result.infobox : Normalized(result.infobox[p][2])
        /\ \A p \in DOMAIN result.sections :
              LET entry == result.sections[p][2]
              IN  /\ Normalized(entry.content)
                  /\ entry.list_items # NoList =>
                        \A n \in DOMAIN entry.list_items :
                            Normalized(entry.list_items[n])

\* A section whose bullet line has a tab and runs of blanks has been
\* parsed: one blank is left between its words.
C24_Witness ==
    /\ pc = "done"
    /\ input[1] = <<"=", "=", " ", "A", " ", "=", "=", NL, "*", " ", " ", "b", "\t", " ", "c", " ", NL, "*", " ", " ", "b", "\t", " ", "c", " ">>
    /\ result.sections[1][2].content = <<"*", " ", "b", " ", "c", " ", "*", " ", "b", " ", "c">>
    /\ result.sections[1][2].list_items = << <<"b", " ", "c">>, <<"b", " ", "c">> >>

(***************************************************************************)
(* build_database_FINAL.py: its own cleaner                                *)
(***************************************************************************)

\* prefix[^\]]+\]\]
BracketLinkAt(s, i, prefix) ==
    LET p == i + Len(prefix)
        r == FirstChar(s, p, "]")
    IN  IF At(s, i, prefix) /\ r > p /\ At(s, r, <<"]", "]">>)
        THEN <<r + 1, <<>>>> ELSE NoMatch

\* What the pattern named pat of build_database_FINAL gives at position i of
\* s; the patterns it shares with wiki_parser go by their names there.
FinalMatchAt(pat, s, i) ==
    CASE pat = "File"     -> BracketLinkAt(s, i, <<"[", "[", "F", "i", "l", "e", ":">>)
      [] pat = "Image"    -> BracketLinkAt(s, i, <<"[", "[", "I", "m", "a", "g", "e", ":">>)
      [] pat = "Category" -> BracketLinkAt(s, i, <<"[", "[", "C", "a", "t", "e", "g", "o", "r", "y", ":">>)
      [] OTHER            -> MatchAt(pat, s, i)

RECURSIVE FinalSubFrom(_, _, _)
FinalSubFrom(pat, s, i) ==
    IF i > Len(s) THEN <<>>
    ELSE LET m == FinalMatchAt(pat, s, i)
         IN  IF m[1] = 0 THEN <<s[i]>> \o FinalSubFrom(pat, s, i + 1)
             ELSE m[2] \o FinalSubFrom(pat, s, m[1] + 1)

\* The substitutions of the cleaner of build_database_FINAL, after the
\* tables, in their order.
FinalCleanSteps ==
    << "faction", "template", "File", "Image", "Category", "link", "space" >>

RECURSIVE FinalSubAll(_, _)
FinalSubAll(pats, s) ==
    IF pats = <<>> THEN s
    ELSE FinalSubAll(Tail(pats), FinalSubFrom(Head(pats), s, 1))

\* clean_wiki_markup of build_database_FINAL
FINAL_clean_wiki_markup(text) ==
    IF ~Truthy(text) THEN <<>>
    ELSE Strip(FinalSubAll(FinalCleanSteps, extract_text_from_tables(text)))

(***************************************************************************)
(* build_database_FINAL.py: extract_game_data                              *)
(***************************************************************************)

EXCLUDED_SECTIONS ==
    { <<"a", "r", "t">>,
      <<"a", "r", "t", "w", "o", "r", "k">>,
      <<"s", "c", "r", "e", "e", "n", "s", "h", "o", "t", "s">>,
      <<"c", "o", "n", "c", "e", "p", "t", " ", "a", "r", "t">>,
      <<"g", "a", "l", "l", "e", "r", "y">>,
      <<"i", "m", "a", "g", "e", "s">>,
      <<"v", "i", "d", "e", "o", "s">>,
      <<"t", "r", "a", "i", "l", "e", "r">>,
      <<"m", "e", "d", "i", "a">>,
      <<"r", "e", "f", "e", "r", "e", "n", "c", "e", "s">>,
      <<"s", "e", "e", " ", "a", "l", "s", "o">>,
      <<"e", "x", "t", "e", "r", "n", "a", "l", " ", "l", "i", "n", "k", "s">>,
      <<"s", "o", "u", "r", "c", "e", "s">>,
      <<"t", "r", "i", "v", "i", "a">>,
      <<"n", "o", "t", "e", "s">>,
      <<"i", "n", " ", "p", "r", "e", "v", "i", "o", "u", "s", " ", "g", "a", "m", "e", "s">>,
      <<"h", "i", "s", "t", "o", "r", "y">>,
      <<"n", "a", "v", "i", "g", "a", "t", "i", "o", "n">>,
      <<"c", "a", "t", "e", "g", "o", "r", "i", "e", "s">>,
      <<"c", "a", "t", "e", "g", "o", "r", "y">> }

DLC_LORDS ==
    << <<"Y", "u", "a", "n", " ", "B", "o">>,
       <<"M", "o", "t", "h", "e", "r", " ", "O", "s", "t", "a", "n", "k", "y", "a">>,
       <<"T", "h", "e", " ", "C", "h", "a", "n", "g", "e", "l", "i", "n", "g">>,
       <<"D", "e", "c", "h", "a", "l", "a">> >>

RACE_METADATA ==
    << << <<"g", "r", "a", "n", "d", "_", "c", "a", "t", "h", "a", "y">>,
         [faction_type |-> <<"o", "r", "d", "e", "r">>,
          playstyle |-> <<<<"d", "e", "f", "e", "n", "s", "i", "v", "e">>, <<"b", "a", "l", "a", "n", "c", "e", "d">>, <<"r", "a", "n", "g", "e", "d">>>>,
          difficulty |-> <<"m", "e", "d", "i", "u", "m">>,
          strengths |-> <<<<"M", "a", "g", "i", "c">>, <<"R", "a", "n", "g", "e", "d", " ", "u", "n", "i", "t", "s">>, <<"D", "e", "f", "e", "n", "s", "i", "v", "e">>, <<"H", "a", "r", "m", "o", "n", "y", " ", "b", "o", "n", "u", "s", "e", "s">>>>,
          weaknesses |-> <<<<"M", "o", "b", "i", "l", "i", "t", "y">>, <<"D", "e", "p", "e", "n", "d", "e", "n", "t", " ", "o", "n", " ", "b", "a", "l", "a", "n", "c", "e">>>>,
          keywords |-> <<<<"d", "r", "a", "g", "o", "n", "s">>, <<"h", "a", "r", "m", "o", "n", "y">>, <<"y", "i", "n">>, <<"y", "a", "n", "g">>, <<"c", "a", "t", "h", "a", "y">>, <<"e", "m", "p", "i", "r", "e">>, <<"d", "e", "f", "e", "n", "s", "i", "v", "e">>>>] >>,
       << <<"k", "i", "s", "l", "e", "v">>,
         [faction_type |-> <<"o", "r", "d", "e", "r">>,
          playstyle |-> <<<<"h", "y", "b", "r", "i", "d">>, <<"c", "a", "v", "a", "l", "r", "y">>, <<"m", "a", "g", "i", "c">>>>,
          difficulty |-> <<"m", "e", "d", "i", "u", "m">>,
          strengths |-> <<<<"H", "y", "b", "r", "i", "d", " ", "u", "n", "i", "t", "s">>, <<"C", "a", "v", "a", "l", "r", "y">>, <<"I", "c", "e", " ", "m", "a", "g", "i", "c">>, <<"V", "e", "r", "s", "a", "t", "i", "l", "e">>>>,
          weaknesses |-> <<<<"N", "o", " ", "f", "l", "y", "i", "n", "g", " ", "u", "n", "i", "t", "s">>, <<"R", "e", "s", "o", "u", "r", "c", "e", " ", "d", "e", "p", "e", "n", "d", "e", "n", "t">>>>,
          keywords |-> <<<<"b", "e", "a", "r", "s">>, <<"i", "c", "e">>, <<"c", "a", "v", "a", "l", "r", "y">>, <<"h", "y", "b", "r", "i", "d">>, <<"r", "u", "s", "s", "i", "a">>, <<"c", "o", "l", "d">>, <<"u", "r", "s", "u", "n">>>>] >>,
       << <<"k", "h", "o", "r", "n", "e">>,
         [faction_type |-> <<"c", "h", "a", "o", "s">>,
          playstyle |-> <<<<"a", "g", "g", "r", "e", "s", "s", "i", "v", "e">>, <<"m", "e", "l", "e", "e">>>>,
          difficulty |-> <<"e", "a", "s", "y">>,
          strengths |-> <<<<"M", "e", "l", "e", "e", " ", "d", "a", "m", "a", "g", "e">>, <<"A", "g", "g", "r", "e", "s", "s", "i", "o", "n">>, <<"N", "o", " ", "m", "a", "g", "i", "c", " ", "w", "e", "a", "k", "n", "e", "s", "s">>>>,
          weaknesses |-> <<<<"N", "o", " ", "r", "a", "n", "g", "e", "d">>, <<"N", "o", " ", "m", "a", "g", "i", "c">>, <<"P", "o", "o", "r", " ", "d", "i", "p", "l", "o", "m", "a", "c", "y">>>>,
          keywords |-> <<<<"b", "l", "o", "o", "d">>, <<"m", "e", "l", "e", "e">>, <<"s", "k", "u", "l", "l", "s">>, <<"a", "g", "g", "r", "e", "s", "s", "i", "v", "e">>, <<"k", "h", "o", "r", "n", "e">>, <<"c", "h", "a", "o", "s">>, <<"b", "l", "o", "o", "d", " ", "g", "o", "d">>>>] >>,
       << <<"t", "z", "e", "e", "n", "t", "c", "h">>,
         [faction_type |-> <<"c", "h", "a", "o", "s">>,
          playstyle |-> <<<<"m", "a", "g", "i", "c">>, <<"r", "a", "n", "g", "e", "d">>, <<"m", "o", "b", "i", "l", "e">>>>,
          difficulty |-> <<"h", "a", "r", "d">>,
          strengths |-> <<<<"M", "a", "g", "i", "c">>, <<"R", "a", "n", "g", "e", "d">>, <<"F", "l", "y", "i", "n", "g", " ", "u", "n", "i", "t", "s">>, <<"T", "e", "l", "e", "p", "o", "r", "t", "a", "t", "i", "o", "n">>>>,
          weaknesses |-> <<<<"W", "e", "a", "k", " ", "m", "e", "l", "e", "e">>, <<"C", "o", "m", "p", "l", "e", "x", " ", "m", "e", "c", "h", "a", "n", "i", "c", "s">>>>,
          keywords |-> <<<<"m", "a", "g", "i", "c">>, <<"s", "c", "h", "e", "m", "i", "n", "g">>, <<"b", "a", "r", "r", "i", "e", "r", "s">>, <<"f", "l", "y", "i", "n", "g">>, <<"t", "z", "e", "e", "n", "t", "c", "h">>, <<"c", "h", "a", "o", "s">>, <<"c", "h", "a", "n", "g", "e">>>>] >>,
       << <<"n", "u", "r", "g", "l", "e">>,
         [faction_type |-> <<"c", "h", "a", "o", "s">>,
          playstyle |-> <<<<"d", "e", "f", "e", "n", "s", "i", "v", "e">>, <<"a", "t", "t", "r", "i", "t", "i", "o", "n">>>>,
          difficulty |-> <<"m", "e", "d", "i", "u", "m">>,
          strengths |-> <<<<"D", "u", "r", "a", "b", "i", "l", "i", "t", "y">>, <<"A", "t", "t", "r", "i", "t", "i", "o", "n">>, <<"P", "l", "a", "g", "u", "e", "s">>, <<"C", "o", "r", "r", "u", "p", "t", "i", "o", "n">>>>,
          weaknesses |-> <<<<"S", "l", "o", "w">>, <<"L", "o", "w", " ", "m", "o", "b", "i", "l", "i", "t", "y">>>>,
          keywords |-> <<<<"p", "l", "a", "g", "u", "e">>, <<"s", "l", "o", "w">>, <<"d", "u", "r", "a", "b", "l", "e">>, <<"a", "t", "t", "r", "i", "t", "i", "o", "n">>, <<"n", "u", "r", "g", "l", "e">>, <<"c", "h", "a", "o", "s">>, <<"d", "e", "c", "a", "y">>>>] >>,
       << <<"s", "l", "a", "a", "n", "e", "s", "h">>,
         [faction_type |-> <<"c", "h", "a", "o", "s">>,
          playstyle |-> <<<<"f", "a", "s", "t">>, <<"a", "g", "g", "r", "e", "s", "s", "i", "v", "e">>, <<"m", "e", "l", "e", "e">>>>,
          difficulty |-> <<"m", "e", "d", "i", "u", "m">>,
          strengths |-> <<<<"S", "p", "e", "e", "d">>, <<"C", "l", "o", "s", "e", " ", "c", "o", "m", "b", "a", "t">>, <<"S", "e", "d", "u", "c", "t", "i", "o", "n">>, <<"D", "i", "p", "l", "o", "m", "a", "c", "y">>>>,
          weaknesses |-> <<<<"L", "o", "w", " ", "a", "r", "m", "o", "r">>, <<"N", "o", " ", "r", "a", "n", "g", "e", "d">>, <<"F", "r", "a", "g", "i", "l", "e">>>>,
          keywords |-> <<<<"f", "a", "s", "t">>, <<"s", "e", "d", "u", "c", "t", "i", "o", "n">>, <<"p", "l", "e", "a", "s", "u", "r", "e">>, <<"s", "p", "e", "e", "d">>, <<"s", "l", "a", "a", "n", "e", "s", "h">>, <<"c", "h", "a", "o", "s">>, <<"e", "x", "c", "e", "s", "s">>>>] >>,
       << <<"d", "a", "e", "m", "o", "n", "s", "_", "o", "f", "_", "c", "h", "a", "o", "s">>,
         [faction_type |-> <<"c", "h", "a", "o", "s">>,
          playstyle |-> <<<<"v", "e", "r", "s", "a", "t", "i", "l", "e">>, <<"a", "d", "a", "p", "t", "i", "v", "e">>>>,
          difficulty |-> <<"h", "a", "r", "d">>,
          strengths |-> <<<<"V", "e", "r", "s", "a", "t", "i", "l", "e", " ", "r", "o", "s", "t", "e", "r">>, <<"A", "l", "l", " ", "g", "o", "d", " ", "u", "n", "i", "t", "s">>, <<"C", "u", "s", "t", "o", "m", "i", "z", "a", "b", "l", "e">>>>,
          weaknesses |-> <<<<"C", "o", "m", "p", "l", "e", "x">>, <<"J", "a", "c", "k", " ", "o", "f", " ", "a", "l", "l", " ", "t", "r", "a", "d", "e", "s">>>>,
          keywords |-> <<<<"u", "n", "d", "i", "v", "i", "d", "e", "d">>, <<"v", "e", "r", "s", "a", "t", "i", "l", "e">>, <<"d", "a", "e", "m", "o", "n", " ", "p", "r", "i", "n", "c", "e">>, <<"a", "l", "l", " ", "g", "o", "d", "s">>, <<"c", "h", "a", "o", "s">>, <<"m", "i", "x", "e", "d">>>>] >>,
       << <<"o", "g", "r", "e", "_", "k", "i", "n", "g", "d", "o", "m", "s">>,
         [faction_type |-> <<"n", "e", "u", "t", "r", "a", "l">>,
          playstyle |-> <<<<"m", "o", "n", "s", "t", "r", "o", "u", "s">>, <<"m", "e", "r", "c", "e", "n", "a", "r", "y">>>>,
          difficulty |-> <<"e", "a", "s", "y">>,
          strengths |-> <<<<"L", "a", "r", "g", "e", " ", "u", "n", "i", "t", "s">>, <<"C", "h", "a", "r", "g", "e", " ", "b", "o", "n", "u", "s">>, <<"C", "a", "m", "p", "s", " ", "a", "n", "y", "w", "h", "e", "r", "e">>>>,
          weaknesses |-> <<<<"N", "o", " ", "f", "l", "y", "i", "n", "g">>, <<"E", "x", "p", "e", "n", "s", "i", "v", "e", " ", "u", "n", "i", "t", "s">>>>,
          keywords |-> <<<<"o", "g", "r", "e", "s">>, <<"m", "o", "n", "s", "t", "r", "o", "u", "s">>, <<"c", "a", "m", "p", "s">>, <<"m", "e", "a", "t">>, <<"m", "e", "r", "c", "e", "n", "a", "r", "y">>, <<"b", "i", "g">>, <<"h", "u", "n", "g", "r", "y">>>>] >> >>

\* word in text, for a word that is not empty
Contains(text, word) == Find(text, 1, word) # 0

\* A test that takes only a whole name for an excluded one.
is_game_content_exact(section_name) ==
    LET lower_name == Lower(section_name)
    IN  /\ lower_name \notin EXCLUDED_SECTIONS
        /\ ~Contains(lower_name, <<"[", "[", "f", "i", "l", "e", ":">>)
        /\ ~Contains(lower_name, <<"{", "{", "#", "e", "v", ":">>)

is_game_content(section_name) ==
    LET lower_name == Lower(section_name)
    IN  /\ \A excluded \in EXCLUDED_SECTIONS : ~Contains(lower_name, excluded)
        /\ ~Contains(lower_name, <<"[", "[", "f", "i", "l", "e", ":">>)
        /\ ~Contains(lower_name, <<"{", "{", "#", "e", "v", ":">>)

\* items or []: None and the empty list give the empty list.
OrEmpty(items) == IF items = NoList THEN <<>> ELSE items

\* sections.get(name, {}): the entry of the name, or the empty dict, which
\* has neither a content nor list_items.
SectionGet(sections, name) ==
    IF name \in Keys(sections) THEN <<DictGet(sections, name)>> ELSE <<>>

\* entry.get("content", "") for what SectionGet gives
ContentOf(got) == IF got = <<>> THEN <<>> ELSE got[1].content

\* entry.get("list_items", []) or [] for what SectionGet gives
ItemsOf(got) == IF got = <<>> THEN <<>> ELSE OrEmpty(got[1].list_items)

\* RACE_METADATA.get(race_id, {}) with the defaults that meta gives to the
\* fields of an unknown race.
MetaInfo(race_id) ==
    IF race_id \in Keys(RACE_METADATA) THEN DictGet(RACE_METADATA, race_id)
    ELSE [faction_type |-> <<>>, playstyle |-> <<>>, difficulty |-> <<"m", "e", "d", "i", "u", "m">>,
          strengths |-> <<>>, weaknesses |-> <<>>, keywords |-> <<>>]

\* s[:n]
Take(s, n) == SubSeq(s, 1, Min({n, Len(s)}))

\* any(word in text for word in words)
ContainsAny(text, words) == \E k \in DOMAIN words : Contains(text, words[k])

\* The first loop over the sections: unique mechanics, general mechanics
\* and magic, a section going to the first of them that its name fits.
RECURSIVE MechanicsLoop(_, _, _)
MechanicsLoop(sections, i, mechanics) ==
    IF i > Len(sections) THEN mechanics
    ELSE LET section_name == sections[i][1]
             lower_name == Lower(section_name)
             content == sections[i][2].content
             items == sections[i][2].list_items
             description == FINAL_clean_wiki_markup(content)
         IN  IF ~is_game_content(section_name) THEN
                 MechanicsLoop(sections, i + 1, mechanics)
             ELSE IF ~Truthy(content) /\ OrEmpty(items) = <<>> THEN
                 MechanicsLoop(sections, i + 1, mechanics)
             ELSE IF Contains(lower_name, <<"u", "n", "i", "q", "u", "e">>) /\ Contains(lower_name, <<"m", "e", "c", "h", "a", "n", "i", "c">>) THEN
                 MechanicsLoop(sections, i + 1,
                     [mechanics EXCEPT !.unique_mechanics =
                         DictSet(@, section_name,
                             [description |-> description, features |-> OrEmpty(items)])])
             ELSE IF ContainsAny(lower_name, << <<"b", "u", "i", "l", "d", "i", "n", "g">>, <<"t", "e", "c", "h">>, <<"c", "o", "m", "m", "a", "n", "d", "m", "e", "n", "t">>, <<"s", "e", "t", "t", "l", "e", "m", "e", "n", "t">> >>) THEN
                 MechanicsLoop(sections, i + 1,
                     [mechanics EXCEPT !.general_mechanics =
                         DictSet(@, section_name,
                             [description |-> description, details |-> OrEmpty(items)])])
             ELSE IF Contains(lower_name, <<"m", "a", "g", "i", "c">>) \/ Contains(lower_name, <<"l", "o", "r", "e">>) THEN
                 MechanicsLoop(sections, i + 1,
                     [mechanics EXCEPT !.magic =
                         DictSet(@, section_name,
                             [description |-> description, lores |-> OrEmpty(items)])])
             ELSE MechanicsLoop(sections, i + 1, mechanics)

\* The loop over the lines of "Playable factions".
RECURSIVE FactionsLoop(_, _, _)
FactionsLoop(factions_list, i, factions) ==
    IF i > Len(factions_list) THEN factions
    ELSE LET faction_line == factions_list[i]
             cleaned == FINAL_clean_wiki_markup(faction_line)
         IN  IF ContainsAny(faction_line, DLC_LORDS) THEN
                 FactionsLoop(factions_list, i + 1, factions)
             ELSE IF Truthy(cleaned) /\ Len(cleaned) > 5 THEN
                 FactionsLoop(factions_list, i + 1, Append(factions, cleaned))
             ELSE FactionsLoop(factions_list, i + 1, factions)

\* The loop over the sections for the units.
RECURSIVE UnitsLoop(_, _, _)
UnitsLoop(sections, i, roster_info) ==
    IF i > Len(sections) THEN roster_info
    ELSE LET section_name == sections[i][1]
             content == sections[i][2].content
             items == sections[i][2].list_items
         IN  IF /\ is_game_content(section_name)
                /\ ContainsAny(Lower(section_name), << <<"u", "n", "i", "t">>, <<"r", "o", "s", "t", "e", "r">>, <<"a", "r", "m", "y">> >>)
                /\ (Truthy(content) \/ OrEmpty(items) # <<>>)
             THEN UnitsLoop(sections, i + 1,
                      DictSet(roster_info, section_name,
                          [description |-> FINAL_clean_wiki_markup(content),
                           unit_types |-> OrEmpty(items)]))
             ELSE UnitsLoop(sections, i + 1, roster_info)

\* The names that the last loop leaves to the overview and the lords.
OverviewSections ==
    { <<"B", "a", "c", "k", "g", "r", "o", "u", "n", "d">>, <<"H", "o", "w", " ", "t", "o", " ", "p", "l", "a", "y">>, <<"H", "o", "w", " ", "T", "h", "e", "y", " ", "P", "l", "a", "y">>, <<"P", "l", "a", "y", "a", "b", "l", "e", " ", "f", "a", "c", "t", "i", "o", "n", "s">> }

\* The last loop over the sections: everything else.
RECURSIVE AdditionalLoop(_, _, _, _)
AdditionalLoop(sections, i, captured_sections, other_information) ==
    IF i > Len(sections) THEN other_information
    ELSE LET section_name == sections[i][1]
             content == sections[i][2].content
             items == sections[i][2].list_items
         IN  IF /\ section_name \notin captured_sections
                /\ section_name \notin OverviewSections
                /\ is_game_content(section_name)
                /\ (Truthy(content) \/ OrEmpty(items) # <<>>)
             THEN AdditionalLoop(sections, i + 1, captured_sections,
                      DictSet(other_information, section_name,
                          [description |-> FINAL_clean_wiki_markup(content),
                           details |-> OrEmpty(items)]))
             ELSE AdditionalLoop(sections, i + 1, captured_sections,
                                 other_information)

extract_game_data(parsed_data, race_id) ==
    LET sections == parsed_data.sections
        meta_info == MetaInfo(race_id)
        known == race_id \in Keys(RACE_METADATA)
        background == ContentOf(SectionGet(sections, <<"B", "a", "c", "k", "g", "r", "o", "u", "n", "d">>))
        short_desc ==
            IF Len(background) > 200
            THEN FINAL_clean_wiki_markup(Take(background, 200)) \o <<".", ".", ".">>
            ELSE FINAL_clean_wiki_markup(background)
        how_to_play ==
            IF SectionGet(sections, <<"H", "o", "w", " ", "t", "o", " ", "p", "l", "a", "y">>) # <<>>
            THEN SectionGet(sections, <<"H", "o", "w", " ", "t", "o", " ", "p", "l", "a", "y">>)
            ELSE IF SectionGet(sections, <<"H", "o", "w", " ", "T", "h", "e", "y", " ", "P", "l", "a", "y">>) # <<>>
            THEN SectionGet(sections, <<"H", "o", "w", " ", "T", "h", "e", "y", " ", "P", "l", "a", "y">>)
            ELSE SectionGet(sections, <<"H", "o", "w", " ", "t", "h", "e", "y", " ", "p", "l", "a", "y">>)
        mechanics ==
            MechanicsLoop(sections, 1,
                [race_id |-> race_id, unique_mechanics |-> <<>>,
                 general_mechanics |-> <<>>, magic |-> <<>>])
        roster_info == UnitsLoop(sections, 1, <<>>)
        captured_sections ==
            Keys(mechanics.unique_mechanics) \cup Keys(mechanics.general_mechanics)
                \cup Keys(mechanics.magic) \cup Keys(roster_info)
    IN  [meta |->
            [id |-> race_id,
             name |-> parsed_data.name,
             type |-> <<"r", "a", "c", "e">>,
             description |-> short_desc,
             faction_type |-> IF known THEN meta_info.faction_type ELSE <<"u", "n", "k", "n", "o", "w", "n">>,
             playstyle |-> meta_info.playstyle,
             difficulty |-> meta_info.difficulty,
             strengths |-> meta_info.strengths,
             weaknesses |-> meta_info.weaknesses,
             keywords |-> meta_info.keywords,
             tags |-> <<race_id, meta_info.faction_type, <<"b", "a", "s", "e", "_", "g", "a", "m", "e">>>>
                          \o meta_info.playstyle],
         overview |->
            [race_id |-> race_id,
             name |-> parsed_data.name,
             background |-> FINAL_clean_wiki_markup(background),
             how_to_play |-> FINAL_clean_wiki_markup(ContentOf(how_to_play)),
             key_features |-> ItemsOf(how_to_play)],
         mechanics |-> mechanics,
         legendary_lords |->
            [race_id |-> race_id,
             factions |->
                FactionsLoop(ItemsOf(SectionGet(sections, <<"P", "l", "a", "y", "a", "b", "l", "e", " ", "f", "a", "c", "t", "i", "o", "n", "s">>)),
                             1, <<>>)],
         units |-> [race_id |-> race_id, roster_info |-> roster_info],
         additional |->
            [race_id |-> race_id,
             other_information |->
                AdditionalLoop(sections, 1, captured_sections, <<>>)]]

(***************************************************************************)
(* extract_game_data on the parsed data of one race                        *)
(***************************************************************************)

MaxSections == 2

\* Names of sections, in the order of the page: the four of the overview
\* and the lords, one for each bucket of the mechanics, one for the units,
\* two that hold an excluded keyword ("art" in "Starting units"), and one
\* that fits nothing.
SectionNames ==
    << <<"B", "a", "c", "k", "g", "r", "o", "u", "n", "d">>,
       <<"H", "o", "w", " ", "t", "o", " ", "p", "l", "a", "y">>,
       <<"H", "o", "w", " ", "T", "h", "e", "y", " ", "P", "l", "a", "y">>,
       <<"P", "l", "a", "y", "a", "b", "l", "e", " ", "f", "a", "c", "t", "i", "o", "n", "s">>,
       <<"U", "n", "i", "q", "u", "e", " ", "u", "n", "i", "t", " ", "m", "e", "c", "h", "a", "n", "i", "c", "s">>,
       <<"T", "e", "c", "h">>,
       <<"L", "o", "r", "e", "s">>,
       <<"A", "r", "m", "y">>,
       <<"S", "t", "a", "r", "t", "i", "n", "g", " ", "u", "n", "i", "t", "s">>,
       <<"T", "r", "i", "v", "i", "a">>,
       <<"C", "l", "i", "m", "a", "t", "e">> >>

\* Entries as parse_race_page writes them: nothing, prose, bullet lines.
SectionEntries ==
    { [content |-> <<>>, list_items |-> NoList],
      [content |-> <<"x", " ", "y">>, list_items |-> NoList],
      [content |-> <<"*", " ", "Y", "u", "a", "n", " ", "B", "o", " ", "*", " ", "M", "i", "a", "o", " ", "Y", "i", "n", "g", " ", "*", " ", "a", "b">>,
       list_items |-> << <<"Y", "u", "a", "n", " ", "B", "o">>, <<"M", "i", "a", "o", " ", "Y", "i", "n", "g">>, <<"a", "b">> >>] }

\* The dicts of at most MaxSections sections, their names in the order of
\* the page and so no name twice.
SectionDicts ==
    UNION { { [k \in 1..n |-> <<SectionNames[pick[k]], entry[k]>>] :
                pick \in { f \in [1..n -> DOMAIN SectionNames] :
                             \A a, b \in 1..n : a < b => f[a] < f[b] },
                entry \in [1..n -> SectionEntries] } :
            n \in 0..MaxSections }

RaceIds == { <<"k", "i", "s", "l", "e", "v">>, <<"n", "o", "b", "o", "d", "y">> }

InitGameData ==
    /\ pc = "ready"
    /\ input \in { << [name |-> <<"K", "i", "s", "l", "e", "v">>, sections |-> d], race_id >> :
                     d \in SectionDicts, race_id \in RaceIds }
    /\ result = <<>>
    /\ again = <<>>
    /\ locals = <<>>
    /\ stdout = <<>>

\* final_data = extract_game_data(parsed_data, race_id)
ExtractGameData ==
    /\ pc = "ready"
    /\ pc' = "done"
    /\ result' = extract_game_data(input[1], input[2])
    /\ UNCHANGED <<input, again, locals, stdout>>

NextGameData == ExtractGameData

SpecGameData == InitGameData /\ [][NextGameData]_vars

(***************************************************************************)
(* Properties of extract_game_data                                         *)
(***************************************************************************)

\* The names in the four buckets of the mechanics and the units.
Captured ==
    Keys(result.mechanics.unique_mechanics)
        \cup Keys(result.mechanics.general_mechanics)
        \cup Keys(result.mechanics.magic)
        \cup Keys(result.units.roster_info)

\* The names in other_information.
Others == Keys(result.additional.other_information)

\* The name holds an excluded keyword, whatever the case of its letters.
HoldsExcluded(name) ==
    LET lower == Lower(name)
    IN  \E word \in EXCLUDED_SECTIONS :
            \E k \in 1..Len(name) : At(lower, k, word)

\* C25: every section that passes is_game_content, has content or list
\* items and is none of Background, How to play, How They Play and Playable
\* factions is in at least one of the five buckets; a section in
\* other_information is in none of the other four; and no section whose
\* name holds an excluded keyword is in any bucket.
C25_Buckets ==
    pc = "done" =>
        LET sections == input[1].sections
        IN  /\ \A k \in DOMAIN sections :
                (/\ is_game_content(sections[k][1])
                 /\ \/ sections[k][2].content # <<>>
                    \/ sections[k][2].list_items \notin {NoList, <<>>}
                 /\ sections[k][1] \notin OverviewSections)
                    => sections[k][1] \in Captured \cup Others
            /\ Captured \cap Others = {}
            /\ \A name \in Captured \cup Others : ~HoldsExcluded(name)

\* Climate and Starting units both with prose: Climate is in
\* other_information, Starting units, which holds "art", is nowhere.
C25_Witness ==
    /\ pc = "done"
    /\ Keys(input[1].sections) = { <<"C", "l", "i", "m", "a", "t", "e">>, <<"S", "t", "a", "r", "t", "i", "n", "g", " ", "u", "n", "i", "t", "s">> }
    /\ \A k \in DOMAIN input[1].sections : input[1].sections[k][2].content = <<"x", " ", "y">>
    /\ Others = { <<"C", "l", "i", "m", "a", "t", "e">> }
    /\ Captured = {}

====
